---- MODULE Spec2Model ----
(***************************************************************************)
(* Model of the action classification core of onchain-receipt-card-api     *)
(* and of the caches and the route around it:                              *)
(*   app/classifiers/evm_classifier.py     classify_evm_actions            *)
(*   app/classifiers/solana_classifier.py  classify_solana_actions         *)
(*   app/classifiers/__init__.py           normalize_actions               *)
(*   app/cache/manager.py                  TransactionCache                *)
(*   app/cache/file_cache.py               FileCache                       *)
(*   app/main.py                           POST /v1/receipt/{chain}        *)
(*                                                                         *)
(* Python values are represented as follows.                               *)
(*   str            a TLA+ string (sliced with SubSeq, joined with \o)     *)
(*   None (str|None)          the string None                              *)
(*   None (object|None)       the record NoneObj                           *)
(*   None (int|None)          the integer NoneInt                          *)
(*   list           a sequence                                             *)
(*   dict[str, num] a sequence of <<key, value>> pairs in insertion order  *)
(*   float          an exact integer count of 1e-9 units (NANO per 1.0);   *)
(*                  rounding error of binary floating point is not         *)
(*                  modelled                                               *)
(*   a call         the record [raised, value]: Return(list) when the call *)
(*                  returns list, Raise when an exception leaves it        *)
(***************************************************************************)
EXTENDS Integers, Sequences, FiniteSets, TLC

VARIABLES
    chain,        \* chain tag handed to normalize_actions
    raw_tx,       \* the raw bundle handed to the classifier
    pc,           \* "input", "classified", "reclassified", "normalized"
    actions,      \* list returned by the classifier called directly
    again,        \* list returned by a second call on the same bundle
    normalized,   \* list returned by normalize_actions
    tx_cache,     \* the TransactionCache object
    now,          \* the clock, in seconds
    ops,          \* number of cache operations so far
    result,       \* the last cache operation: its key, its outcome, its instant,
                  \* the store and the order of use it found
    uses,         \* the keys used so far, each once, most recently used last
    latest,       \* per key, the latest set and whether its entry was pushed out
    files,        \* the directory of the FileCache
    ledger,       \* what the RPC provider answers for the (chain, tx_hash) asked for
    request,      \* the POST /v1/receipt request being served, and where it waits
    answers       \* the requests answered so far, in order of their answers

classifierVars == <<chain, raw_tx, pc, actions, again, normalized>>

cacheVars == <<tx_cache, now, ops, result, uses, latest>>

httpVars == <<files, ledger, request, answers>>

serviceVars == <<cacheVars, httpVars>>

vars == <<classifierVars, serviceVars>>

(***************************************************************************)
(* Python value encodings                                                  *)
(***************************************************************************)
None == "<None>"
NoneObj == [none |-> TRUE]
NoneInt == -1
Return(list) == [raised |-> FALSE, value |-> list]
Raise == [raised |-> TRUE, value |-> <<>>]

Truthy(s) == s # None /\ s # ""

Or(a, b) == IF Truthy(a) THEN a ELSE b

Max(a, b) == IF a >= b THEN a ELSE b

Abs(n) == IF n < 0 THEN -n ELSE n

RECURSIVE Rep(_, _)
Rep(s, n) ==
    IF n <= 0 THEN ""
    ELSE IF n % 2 = 0 THEN LET half == Rep(s, n \div 2) IN half \o half
    ELSE s \o Rep(s, n - 1)

\* s[-n:]
Suffix(s, n) == SubSeq(s, Max(1, Len(s) - n + 1), Len(s))

\* s[:n]
Prefix(s, n) == SubSeq(s, 1, IF Len(s) < n THEN Len(s) ELSE n)

CharAt(s, i) == SubSeq(s, i, i)

UpperChars == {"A", "B", "C", "D", "E", "F", "X"}

LowerChar(c) ==
    CASE c = "A" -> "a" [] c = "B" -> "b" [] c = "C" -> "c"
      [] c = "D" -> "d" [] c = "E" -> "e" [] c = "F" -> "f"
      [] c = "X" -> "x" [] OTHER -> c

HasUpper(s) == \E i \in 1..Len(s) : CharAt(s, i) \in UpperChars

\* s.lower(), over the hexadecimal alphabet
RECURSIVE Lower(_)
Lower(s) ==
    IF ~HasUpper(s) THEN s
    ELSE IF Len(s) = 1 THEN LowerChar(s)
    ELSE Lower(SubSeq(s, 1, Len(s) \div 2)) \o Lower(SubSeq(s, Len(s) \div 2 + 1, Len(s)))

Digits == <<"0", "1", "2", "3", "4", "5", "6", "7", "8", "9">>

\* str(n) for an int n >= 0
RECURSIVE IntStr(_)
IntStr(n) == IF n < 10 THEN Digits[n + 1] ELSE IntStr(n \div 10) \o Digits[(n % 10) + 1]

HexDigits == <<"0", "1", "2", "3", "4", "5", "6", "7", "8", "9", "a", "b", "c", "d", "e", "f">>

IsHexDigit(c) == \E i \in 1..Len(HexDigits) : HexDigits[i] = LowerChar(c)

HexDigitValue(c) == (CHOOSE i \in 1..Len(HexDigits) : HexDigits[i] = LowerChar(c)) - 1

\* the digits of a literal after an optional 0x / 0X prefix
HexBody(s) == IF Len(s) >= 2 /\ Lower(Prefix(s, 2)) = "0x" THEN SubSeq(s, 3, Len(s)) ELSE s

\* the value of a string of hex digits without leading zeros
RECURSIVE HexSignificant(_)
HexSignificant(d) ==
    IF d = "" THEN 0
    ELSE 16 * HexSignificant(SubSeq(d, 1, Len(d) - 1)) + HexDigitValue(CharAt(d, Len(d)))

\* the value of a string of hex digits
HexValue(d) ==
    IF \A i \in 1..Len(d) : CharAt(d, i) = "0" THEN 0
    ELSE LET first == CHOOSE i \in 1..Len(d) :
                          CharAt(d, i) # "0" /\ \A j \in 1..(i - 1) : CharAt(d, j) = "0"
         IN HexSignificant(SubSeq(d, first, Len(d)))

\* int(s, 16) raises ValueError
IntBase16Raises(s) ==
    \/ HexBody(s) = ""
    \/ \E i \in 1..Len(HexBody(s)) : ~IsHexDigit(CharAt(HexBody(s), i))

(***************************************************************************)
(* dict[str, number], insertion-ordered                                    *)
(***************************************************************************)
DictHas(d, k) == \E i \in 1..Len(d) : d[i][1] = k

\* the stored value never read
DictGetDefault(d, k, default) == default

DictGet(d, k, default) ==
    IF DictHas(d, k) THEN d[CHOOSE i \in 1..Len(d) : d[i][1] = k][2] ELSE default

\* d[k] = v : an existing key keeps its position, a new key goes last
DictSet(d, k, v) ==
    IF DictHas(d, k)
    THEN [i \in 1..Len(d) |-> IF d[i][1] = k THEN <<k, v>> ELSE d[i]]
    ELSE Append(d, <<k, v>>)

\* d.pop(k, None)
DictPop(d, k) == LET Keep(p) == p[1] # k IN SelectSeq(d, Keep)

\* the first key of the dict, whatever its value
DictArgMinFirstKey(d) == d[1][1]

\* min(d, key=d.get): the first key, in iteration order, of the least value
DictArgMin(d) ==
    d[CHOOSE i \in 1..Len(d) :
        /\ \A j \in 1..Len(d) : d[i][2] <= d[j][2]
        /\ \A j \in 1..(i - 1) : d[j][2] > d[i][2]][1]

\* max(d, key=d.get): the first key, in iteration order, of the greatest value
DictArgMax(d) ==
    d[CHOOSE i \in 1..Len(d) :
        /\ \A j \in 1..Len(d) : d[i][2] >= d[j][2]
        /\ \A j \in 1..(i - 1) : d[j][2] < d[i][2]][1]

(***************************************************************************)
(* app/models/action.py                                                    *)
(***************************************************************************)
TokenInfo(address, symbol, amount, decimals) ==
    [address |-> address, symbol |-> symbol, amount |-> amount, decimals |-> decimals]

NFTInfo(token_id) == [name |-> None, collection |-> None, token_id |-> token_id]

\* Action(type=t) with every other field at its default
Action(t) ==
    [type |-> t, primary |-> FALSE, token_in |-> NoneObj, token_out |-> NoneObj,
     protocol |-> None, nft |-> NoneObj, spender |-> None, to |-> None,
     from_ |-> None, count |-> NoneInt, note |-> None]

ActionType ==
    {"swap", "transfer", "nft_transfer", "mint", "burn", "approve", "contract_call", "overflow"}

(***************************************************************************)
(* app/classifiers/evm_classifier.py                                       *)
(***************************************************************************)
ERC20_TRANSFER == "0xddf252ad1be2c89b69c2b068fc378daa952ba7f163c4a11628f55a4df523b3ef"
ERC721_TRANSFER == ERC20_TRANSFER
APPROVAL == "0x8c5be1e5ebec7d5bd14f71427d1e84f3dd0314c0f7b2291e5b200ac8c7c3b925"
ERC1155_TRANSFER_SINGLE == "0xc3d58168c5ae7397731d063d5bbf3d657854427343f4c083240f7aacaa2d0f62"
WETH_DEPOSIT == "0xe1fffcc4923d04b559f4d29a8bfc6cda04eb5b0d3c460751c2402c5c5cc9109c"
WETH_WITHDRAWAL == "0x7fcf532c15f0a6db0bd6d0e038bea71d30d808c7d98cb3bf7268a95bf5081b65"

WETH_ADDRESSES == {"0x4200000000000000000000000000000000000006"}

KNOWN_ROUTERS ==
    << <<"0x2626664c2603336e57b271c5c0b26f421741e481", "Uniswap V3">>,
       <<"0x3fc91a3afd70395cd496c647d5a6cc9d4b2b7fad", "Uniswap Universal Router">>,
       <<"0xcf77a3ba9a5ca399b7c97c74d54e5b1beb874e43", "Aerodrome">>,
       <<"0x111111125421ca6dc452d289314280a0f8842a65", "1inch">>,
       <<"0x1111111254eeb25477b68fb85ed929f73a960582", "1inch">> >>

MULTICALL_SELECTOR == "0xac9650d8"

NATIVE_KEY_EVM == "native_eth"

\* a key absent from a dict, where .get(key, default) has a default other than None
Missing == "<missing>"

Get(v, default) == IF v = Missing THEN default ELSE v

\* the same for an int-valued key, whose absence is written NoneInt
GetInt(v, default) == IF v = NoneInt THEN default ELSE v

_decode_address(topic_hex) == "0x" \o Lower(Suffix(topic_hex, 40))

\* slicing None raises TypeError
DecodeRaises(topic_hex) == topic_hex = None

_hex_to_int(hex_str) ==
    IF ~Truthy(hex_str) \/ hex_str = "0x" THEN 0 ELSE HexValue(HexBody(hex_str))

HexToIntRaises(hex_str) ==
    Truthy(hex_str) /\ hex_str # "0x" /\ IntBase16Raises(hex_str)

_identify_protocol(tx) == DictGet(KNOWN_ROUTERS, Lower(Or(tx.to, "")), None)

\* the locals of classify_evm_actions that the log loop updates
ScanStart ==
    [deltas |-> <<>>, nft_actions |-> <<>>, approval_actions |-> <<>>,
     weth_net_delta |-> 0, raised |-> FALSE]

NftAction(contract, token_id, amount, from_addr, to_addr, user, protocol) ==
    [Action("nft_transfer") EXCEPT
        !.nft = NFTInfo(token_id),
        !.from_ = from_addr,
        !.to = to_addr,
        !.token_in = IF from_addr = user
                     THEN TokenInfo(contract, "NFT #" \o token_id, amount, 0)
                     ELSE NoneObj,
        !.token_out = IF to_addr = user
                      THEN TokenInfo(contract, "NFT #" \o token_id, amount, 0)
                      ELSE NoneObj,
        !.protocol = protocol]

\* weth_net_delta -= amount
WethDeposit(st, amount) == [st EXCEPT !.weth_net_delta = @ - amount]

\* the withdrawal taken for a deposit
WethWithdrawalAsDeposit(st, amount) == [st EXCEPT !.weth_net_delta = @ - amount]

\* weth_net_delta += amount
WethWithdrawal(st, amount) == [st EXCEPT !.weth_net_delta = @ + amount]

\* one iteration of `for log in logs`
ScanLog(st, log, user, protocol) ==
    LET topics == log.topics
        n == Len(topics)
        event_sig == IF n > 0 /\ Truthy(topics[1]) THEN Lower(topics[1]) ELSE ""
        contract == Lower(Or(log.address, ""))
        data == Get(log.data, "0x")
        Fail == [st EXCEPT !.raised = TRUE]
    IN
    IF n = 0 THEN st
    ELSE IF contract \in WETH_ADDRESSES /\ event_sig = WETH_DEPOSIT /\ n >= 2 THEN
        IF DecodeRaises(topics[2]) \/ HexToIntRaises(data) THEN Fail
        ELSE IF _decode_address(topics[2]) = user
             THEN WethDeposit(st, _hex_to_int(data))
             ELSE st
    ELSE IF contract \in WETH_ADDRESSES /\ event_sig = WETH_WITHDRAWAL /\ n >= 2 THEN
        IF DecodeRaises(topics[2]) \/ HexToIntRaises(data) THEN Fail
        ELSE IF _decode_address(topics[2]) = user
             THEN WethWithdrawal(st, _hex_to_int(data))
             ELSE st
    ELSE IF event_sig = ERC721_TRANSFER /\ n = 4 THEN
        IF DecodeRaises(topics[2]) \/ DecodeRaises(topics[3]) \/ HexToIntRaises(topics[4])
        THEN Fail
        ELSE LET from_addr == _decode_address(topics[2])
                 to_addr == _decode_address(topics[3])
                 token_id == IntStr(_hex_to_int(topics[4]))
             IN IF from_addr = user \/ to_addr = user
                THEN [st EXCEPT !.nft_actions = Append(@,
                        NftAction(contract, token_id, "1", from_addr, to_addr, user, protocol))]
                ELSE st
    ELSE IF event_sig = ERC1155_TRANSFER_SINGLE /\ n >= 4 THEN
        IF DecodeRaises(topics[3]) \/ DecodeRaises(topics[4]) \/ data = None THEN Fail
        ELSE IF Len(data) >= 130
                /\ (\/ HexToIntRaises("0x" \o SubSeq(data, 3, 66))
                    \/ HexToIntRaises("0x" \o SubSeq(data, 67, 130)))
        THEN Fail
        ELSE LET from_addr == _decode_address(topics[3])
                 to_addr == _decode_address(topics[4])
                 token_id == IF Len(data) >= 130
                             THEN IntStr(_hex_to_int("0x" \o SubSeq(data, 3, 66)))
                             ELSE "0"
                 amount == IF Len(data) >= 130
                           THEN _hex_to_int("0x" \o SubSeq(data, 67, 130))
                           ELSE 1
             IN IF from_addr = user \/ to_addr = user
                THEN [st EXCEPT !.nft_actions = Append(@,
                        NftAction(contract, token_id, IntStr(amount), from_addr, to_addr,
                                  user, protocol))]
                ELSE st
    ELSE IF event_sig = ERC20_TRANSFER /\ n = 3 THEN
        IF DecodeRaises(topics[2]) \/ DecodeRaises(topics[3]) \/ HexToIntRaises(data) THEN Fail
        ELSE LET from_addr == _decode_address(topics[2])
                 to_addr == _decode_address(topics[3])
                 amount == _hex_to_int(data)
                 d1 == IF from_addr = user
                       THEN DictSet(st.deltas, contract, DictGet(st.deltas, contract, 0) - amount)
                       ELSE st.deltas
                 d2 == IF to_addr = user
                       THEN DictSet(d1, contract, DictGet(d1, contract, 0) + amount)
                       ELSE d1
             IN [st EXCEPT !.deltas = d2]
    ELSE IF event_sig = APPROVAL /\ n >= 3 THEN
        IF DecodeRaises(topics[2]) \/ DecodeRaises(topics[3]) THEN Fail
        ELSE IF _decode_address(topics[2]) = user
             THEN [st EXCEPT !.approval_actions = Append(@,
                     [Action("approve") EXCEPT
                         !.spender = _decode_address(topics[3]),
                         !.token_in = TokenInfo(contract, "Unknown", "0", 18)])]
             ELSE st
    ELSE st

\* `for log in logs`, stopped by the first exception
RECURSIVE ScanLogs(_, _, _, _)
ScanLogs(st, logs, user, protocol) ==
    IF logs = <<>> \/ st.raised THEN st
    ELSE ScanLogs(ScanLog(st, Head(logs), user, protocol), Tail(logs), user, protocol)

RECURSIVE SumDeltas(_, _)
SumDeltas(deltas, addrs) ==
    IF addrs = {} THEN 0
    ELSE LET a == CHOOSE x \in addrs : TRUE
         IN DictGet(deltas, a, 0) + SumDeltas(deltas, addrs \ {a})

\* the Transfer deltas on the wrapped-native contracts left out of the fold
FoldNativeWithoutTransfers(st, native_sent) == -native_sent + st.weth_net_delta

\* native_delta after `for weth_addr in WETH_ADDRESSES`
FoldNative(st, native_sent) == -native_sent + st.weth_net_delta + SumDeltas(st.deltas, WETH_ADDRESSES)

\* deltas after the wrapped-native keys are popped and the native key is added
FoldDeltas(st, native_sent) ==
    LET NotWeth(p) == p[1] \notin WETH_ADDRESSES
        popped == SelectSeq(st.deltas, NotWeth)
        native_delta == FoldNative(st, native_sent)
    IN IF native_delta # 0 THEN DictSet(popped, NATIVE_KEY_EVM, native_delta) ELSE popped

\* a zero delta taken for a loss
IsNegativeOrZero(p) == p[2] <= 0

IsNegative(p) == p[2] < 0

IsPositive(p) == p[2] > 0

ExternalAddress(k, native_key) == IF k # native_key THEN k ELSE "native"

EvmSwap(negative_deltas, positive_deltas, protocol) ==
    LET token_in_addr == DictArgMin(negative_deltas)
        token_out_addr == DictArgMax(positive_deltas)
    IN [Action("swap") EXCEPT
           !.token_in = TokenInfo(ExternalAddress(token_in_addr, NATIVE_KEY_EVM), "Unknown",
                                  IntStr(Abs(DictGet(negative_deltas, token_in_addr, 0))), 18),
           !.token_out = TokenInfo(ExternalAddress(token_out_addr, NATIVE_KEY_EVM), "Unknown",
                                   IntStr(DictGet(positive_deltas, token_out_addr, 0)), 18),
           !.protocol = protocol]

EvmTransferOut(p, tx_data, receipt, user, protocol) ==
    [Action("transfer") EXCEPT
        !.token_in = TokenInfo(ExternalAddress(p[1], NATIVE_KEY_EVM), "Unknown",
                               IntStr(Abs(p[2])), 18),
        !.to = Or(tx_data.to, Or(receipt.to, "")),
        !.from_ = user,
        !.protocol = protocol]

\* the gain reported as the token given, with no recipient
EvmTransferInAsOut(p, user, protocol) ==
    [Action("transfer") EXCEPT
        !.token_in = TokenInfo(ExternalAddress(p[1], NATIVE_KEY_EVM), "Unknown",
                               IntStr(p[2]), 18),
        !.from_ = user,
        !.protocol = protocol]

EvmTransferIn(p, user, protocol) ==
    [Action("transfer") EXCEPT
        !.token_out = TokenInfo(ExternalAddress(p[1], NATIVE_KEY_EVM), "Unknown",
                                IntStr(p[2]), 18),
        !.to = user,
        !.protocol = protocol]

\* the swap / transfer branch over the folded delta map
\* the swap followed by a transfer for every loss
EvmFungibleSwapAndTransfers(deltas, tx_data, receipt, user, protocol) ==
    LET negative_deltas == SelectSeq(deltas, IsNegative)
        positive_deltas == SelectSeq(deltas, IsPositive)
    IN (IF negative_deltas # <<>> /\ positive_deltas # <<>>
        THEN <<EvmSwap(negative_deltas, positive_deltas, protocol)>>
        ELSE <<>>)
       \o [i \in 1..Len(negative_deltas) |->
                EvmTransferOut(negative_deltas[i], tx_data, receipt, user, protocol)]

EvmFungible(deltas, tx_data, receipt, user, protocol) ==
    LET negative_deltas == SelectSeq(deltas, IsNegative)
        positive_deltas == SelectSeq(deltas, IsPositive)
    IN IF negative_deltas # <<>> /\ positive_deltas # <<>>
       THEN <<EvmSwap(negative_deltas, positive_deltas, protocol)>>
       ELSE IF negative_deltas # <<>>
       THEN [i \in 1..Len(negative_deltas) |->
                EvmTransferOut(negative_deltas[i], tx_data, receipt, user, protocol)]
       ELSE IF positive_deltas # <<>>
       THEN [i \in 1..Len(positive_deltas) |->
                EvmTransferIn(positive_deltas[i], user, protocol)]
       ELSE <<>>

\* the estimate taken from the count of hex digits, not of bytes
EvmFallbackCountsHexDigits(tx_data, protocol) ==
    LET input_data == Get(tx_data.input, "0x")
        selector == IF Len(input_data) >= 10 THEN Prefix(input_data, 10) ELSE input_data
        estimated_calls == Max(1, (Len(input_data) - 10) \div 68)
    IN IF selector = MULTICALL_SELECTOR
       THEN [Action("contract_call") EXCEPT
                !.note = "Batch: ~" \o IntStr(estimated_calls) \o " calls",
                !.to = tx_data.to,
                !.protocol = protocol]
       ELSE [Action("contract_call") EXCEPT
                !.note = "Function: " \o selector,
                !.to = tx_data.to]

\* the contract_call emitted when nothing else classified
EvmFallback(tx_data, protocol) ==
    LET input_data == Get(tx_data.input, "0x")
        selector == IF Len(input_data) >= 10 THEN Prefix(input_data, 10) ELSE input_data
        data_len == (Len(input_data) - 10) \div 2
        estimated_calls == Max(1, data_len \div 68)
    IN IF selector = MULTICALL_SELECTOR
       THEN [Action("contract_call") EXCEPT
                !.note = "Batch: ~" \o IntStr(estimated_calls) \o " calls",
                !.to = tx_data.to,
                !.protocol = protocol]
       ELSE [Action("contract_call") EXCEPT
                !.note = "Function: " \o selector,
                !.to = tx_data.to]

EvmUser(raw) == Lower(Or(raw.transaction.from, Or(raw.receipt.from, "")))

\* a creation recognised only when `to` is set
EvmIsCreationWithTo(raw) == Truthy(raw.receipt.contractAddress) /\ Truthy(raw.transaction.to)

\* contract creation: contractAddress set and no `to`
EvmIsCreation(raw) == Truthy(raw.receipt.contractAddress) /\ ~Truthy(raw.transaction.to)

\* whether the call gets as far as the delta analysis
EvmAnalysed(raw) == EvmUser(raw) # "" /\ ~EvmIsCreation(raw)

\* the log loop's locals at its end
EvmScan(raw) ==
    ScanLogs(ScanStart, raw.receipt.logs, EvmUser(raw), _identify_protocol(raw.transaction))

EvmValueRaises(raw) == HexToIntRaises(Get(raw.transaction.value, "0x0"))

EvmNativeSent(raw) == _hex_to_int(Get(raw.transaction.value, "0x0"))

\* the folded delta map the classification branch reads
EvmDeltas(raw) == FoldDeltas(EvmScan(raw), EvmNativeSent(raw))

\* the approvals put in front of the other actions
EvmListedApprovalsFirst(fungible, st) == st.approval_actions \o fungible \o st.nft_actions

\* actions after the NFT actions and the approvals are appended
EvmListed(fungible, st) == fungible \o st.nft_actions \o st.approval_actions

classify_evm_actions(raw) ==
    LET tx_data == raw.transaction
        receipt == raw.receipt
        user == EvmUser(raw)
        contract_address == receipt.contractAddress
        protocol == _identify_protocol(tx_data)
        st == EvmScan(raw)
    IN IF user = "" THEN Return(<<>>)
       ELSE IF EvmIsCreation(raw)
       THEN Return(<<[Action("contract_call") EXCEPT
                        !.note = "Contract Deployed: " \o contract_address,
                        !.from_ = user,
                        !.to = contract_address]>>)
       ELSE IF st.raised \/ EvmValueRaises(raw) THEN Raise
       ELSE LET fungible == EvmFungible(EvmDeltas(raw), tx_data, receipt, user, protocol)
                listed == EvmListed(fungible, st)
            IN IF listed # <<>> THEN Return(listed)
               ELSE IF tx_data.input = None THEN Raise
               ELSE Return(<<EvmFallback(tx_data, protocol)>>)

(***************************************************************************)
(* float                                                                   *)
(***************************************************************************)
\* the number of 1e-9 units in 1.0; lamports / 1e9 is a count of the same units
NANO == 1000000000

\* 0.000001, the dust threshold, in 1e-9 units
DUST == 1000

RECURSIVE TrailingZeros(_)
TrailingZeros(n) == IF n % 10 = 0 THEN 1 + TrailingZeros(n \div 10) ELSE 0

RECURSIVE Pow10(_)
Pow10(k) == IF k = 0 THEN 1 ELSE 10 * Pow10(k - 1)

\* str(x) of a float x >= 0 holding n units of 1e-9: the shortest repr, in
\* exponent notation when the decimal point falls more than 3 zeros left
FloatStr(n) ==
    IF n = 0 THEN "0.0"
    ELSE LET z == TrailingZeros(n)
             digits == IntStr(n \div Pow10(z))
             k == Len(digits)
             decpt == k + z - 9
         IN IF decpt > -4
            THEN IF decpt <= 0 THEN "0." \o Rep("0", -decpt) \o digits
                 ELSE IF decpt >= k THEN digits \o Rep("0", decpt - k) \o ".0"
                 ELSE SubSeq(digits, 1, decpt) \o "." \o SubSeq(digits, decpt + 1, k)
            ELSE LET e == 1 - decpt
                     mantissa == IF k = 1 THEN digits
                                 ELSE SubSeq(digits, 1, 1) \o "." \o SubSeq(digits, 2, k)
                 IN mantissa \o "e-" \o (IF e < 10 THEN "0" ELSE "") \o IntStr(e)

(***************************************************************************)
(* app/classifiers/solana_classifier.py                                    *)
(***************************************************************************)
VOTE_PROGRAM == "Vote111111111111111111111111111111111111111"

KNOWN_PROGRAMS ==
    << <<"JUP6LkbZbjS1jKKwapdHNy74zcZ3tLUZoi5QNyVTaV4", "Jupiter">>,
       <<"JUP4Fb2cqiRUcaTHdrPC8h2gNsA2ETXiPDD33WcGuJB", "Jupiter">>,
       <<"675kPX9MHTjS2zt1qfr1NYHuzeLXfQM9H24wFSUt1Mp8", "Raydium">>,
       <<"CAMMCzo5YL8w4VFF8KVHrK22GGUsp5VTaW7grrKgrWqK", "Raydium CLMM">>,
       <<"whirLbMiicVdio4qvUfM5KAg6Ct8VwpYzGff3uctyCc", "Orca Whirlpool">>,
       <<"9W959DqEETiGZocYWCQPaJ6sBmUzgfxXfqGeTEdp3aQP", "Orca">>,
       <<"MERLuDFBMmsHnsBPZw2sDQZHvXFMwp8EdjudcU2HKky", "Mercurial">>,
       <<"SSwpkEEcbUqx4vtoEByFjSkhKdCT862DNVb52nZg1UZ", "Saber">>,
       <<"PhoeNiXZ8ByJGLkxNfZRnkUfjvmuYqLR89jjFHGqdXY", "Phoenix">> >>

NATIVE_KEY_SOL == "native_sol"

\* key["pubkey"] if isinstance(key, dict) else str(key); an account key is
\* the record [is_dict, pubkey]
Pubkey(key) == key.pubkey

AccountKeys(raw) == raw.transaction.message.accountKeys

Instructions(raw) == raw.transaction.message.instructions

_get_signer(raw) ==
    IF AccountKeys(raw) # <<>> THEN Pubkey(AccountKeys(raw)[1]) ELSE ""

\* the first account key, then the first instruction, naming a known program
_identify_protocol_sol(raw) ==
    LET keys == AccountKeys(raw)
        ixs == Instructions(raw)
        KnownKey(i) == DictHas(KNOWN_PROGRAMS, Pubkey(keys[i]))
        KnownIx(i) == DictHas(KNOWN_PROGRAMS, Get(ixs[i].programId, ""))
    IN IF \E i \in 1..Len(keys) : KnownKey(i)
       THEN LET i == CHOOSE i \in 1..Len(keys) :
                        KnownKey(i) /\ \A j \in 1..(i - 1) : ~KnownKey(j)
            IN DictGet(KNOWN_PROGRAMS, Pubkey(keys[i]), None)
       ELSE IF \E i \in 1..Len(ixs) : KnownIx(i)
       THEN LET i == CHOOSE i \in 1..Len(ixs) :
                        KnownIx(i) /\ \A j \in 1..(i - 1) : ~KnownIx(j)
            IN DictGet(KNOWN_PROGRAMS, Get(ixs[i].programId, ""), None)
       ELSE None

\* the account keys searched, the instructions not
_is_vote_transactionKeysOnly(raw) ==
    \E i \in 1..Len(AccountKeys(raw)) : Pubkey(AccountKeys(raw)[i]) = VOTE_PROGRAM

_is_vote_transaction(raw) ==
    \/ \E i \in 1..Len(AccountKeys(raw)) : Pubkey(AccountKeys(raw)[i]) = VOTE_PROGRAM
    \/ \E i \in 1..Len(Instructions(raw)) : Get(Instructions(raw)[i].programId, "") = VOTE_PROGRAM

\* the explicit owner, else the account key at accountIndex, else ""
\* the owner read from the entry only, never resolved through accountIndex
_get_ownerExplicitOnly(balance_entry, account_keys) == Get(balance_entry.owner, "")

_get_owner(balance_entry, account_keys) ==
    IF Truthy(Get(balance_entry.owner, "")) THEN balance_entry.owner
    ELSE LET idx == GetInt(balance_entry.accountIndex, -1)
         IN IF 0 <= idx /\ idx < Len(account_keys)
            THEN Pubkey(account_keys[idx + 1])
            ELSE ""

\* float(ui_amount.get("uiAmount") or 0)
UiAmount(entry) == IF entry.uiAmount = NoneInt THEN 0 ELSE entry.uiAmount

\* one of the two `for entry in ..._balances` loops: the (accountIndex, mint)
\* -> amount map of the entries owned by the signer
RECURSIVE BalanceMap(_, _, _, _)
BalanceMap(entries, signer, account_keys, m) ==
    IF entries = <<>> THEN m
    ELSE LET entry == Head(entries)
             key == <<GetInt(entry.accountIndex, 0), Get(entry.mint, "")>>
         IN IF _get_owner(entry, account_keys) # signer
            THEN BalanceMap(Tail(entries), signer, account_keys, m)
            ELSE BalanceMap(Tail(entries), signer, account_keys, DictSet(m, key, UiAmount(entry)))

\* mint_decimals after the pre loop and then the post loop
RECURSIVE MintDecimals(_, _, _, _)
MintDecimals(entries, signer, account_keys, m) ==
    IF entries = <<>> THEN m
    ELSE LET entry == Head(entries)
         IN IF _get_owner(entry, account_keys) # signer
            THEN MintDecimals(Tail(entries), signer, account_keys, m)
            ELSE MintDecimals(Tail(entries), signer, account_keys,
                              DictSet(m, Get(entry.mint, ""), GetInt(entry.decimals, 0)))

DictKeySet(d) == {d[i][1] : i \in 1..Len(d)}

\* The order in which `for key in all_keys` visits a set of (accountIndex,
\* mint) tuples.  It follows the str hashes of the interpreter process; seed
\* lists the mints in the order their first keys are visited, which is all of
\* that order the per-mint sums depend on.
MintRank(mint, seed) ==
    IF \E i \in 1..Len(seed) : seed[i] = mint
    THEN CHOOSE i \in 1..Len(seed) : seed[i] = mint
    ELSE Len(seed) + 1

RECURSIVE SetIterationOrder(_, _)
SetIterationOrder(keys, seed) ==
    IF keys = {} THEN <<>>
    ELSE LET Before(a, b) ==
                 \/ MintRank(a[2], seed) < MintRank(b[2], seed)
                 \/ MintRank(a[2], seed) = MintRank(b[2], seed) /\ a[1] <= b[1]
             first == CHOOSE a \in keys : \A b \in keys : Before(a, b)
         IN <<first>> \o SetIterationOrder(keys \ {first}, seed)

\* mint_deltas after `for key in all_keys`
RECURSIVE MintDeltas(_, _, _, _)
MintDeltas(order, pre_map, post_map, md) ==
    IF order = <<>> THEN md
    ELSE LET key == Head(order)
             mint == key[2]
             delta == DictGet(post_map, key, 0) - DictGet(pre_map, key, 0)
         IN MintDeltas(Tail(order), pre_map, post_map,
                       DictSet(md, mint, DictGet(md, mint, 0) + delta))

\* sol_delta, in 1e-9 units (lamports)
\* the fee left in the native delta
SolDeltaFeeNotAddedBack(meta) ==
    IF meta.preBalances # <<>> /\ meta.postBalances # <<>>
    THEN meta.postBalances[1] - meta.preBalances[1]
    ELSE 0

SolDelta(meta) ==
    IF meta.preBalances # <<>> /\ meta.postBalances # <<>>
    THEN meta.postBalances[1] - meta.preBalances[1] + GetInt(meta.fee, 0)
    ELSE 0

\* decimals == 0 and abs(delta) == 1.0
\* a loss of one unit not taken for an NFT
IsNftDeltaGainOnly(p, mint_decimals) == DictGet(mint_decimals, p[1], 0) = 0 /\ p[2] = NANO

IsNftDelta(p, mint_decimals) == DictGet(mint_decimals, p[1], 0) = 0 /\ Abs(p[2]) = NANO

SolNftAction(p, signer, protocol) ==
    [Action("nft_transfer") EXCEPT
        !.token_in = IF p[2] < 0 THEN TokenInfo(p[1], "NFT", "1", 0) ELSE NoneObj,
        !.token_out = IF p[2] > 0 THEN TokenInfo(p[1], "NFT", "1", 0) ELSE NoneObj,
        !.from_ = IF p[2] < 0 THEN signer ELSE None,
        !.to = IF p[2] > 0 THEN signer ELSE None,
        !.protocol = protocol]

BelowDust(p) == p[2] < -DUST

\* a gain of any size taken for a gain beyond dust
AboveDustNoThreshold(p) == p[2] > 0

\* a gain of exactly the dust threshold taken for a gain beyond it
AboveDustInclusive(p) == p[2] >= DUST

AboveDust(p) == p[2] > DUST

SolSwap(negative, positive, mint_decimals, protocol) ==
    LET token_in_mint == DictArgMin(negative)
        token_out_mint == DictArgMax(positive)
    IN [Action("swap") EXCEPT
           !.token_in = TokenInfo(ExternalAddress(token_in_mint, NATIVE_KEY_SOL), "Unknown",
                                  FloatStr(Abs(DictGet(negative, token_in_mint, 0))),
                                  DictGet(mint_decimals, token_in_mint, 9)),
           !.token_out = TokenInfo(ExternalAddress(token_out_mint, NATIVE_KEY_SOL), "Unknown",
                                   FloatStr(DictGet(positive, token_out_mint, 0)),
                                   DictGet(mint_decimals, token_out_mint, 9)),
           !.protocol = protocol]

SolTransferOut(p, mint_decimals, signer, protocol) ==
    [Action("transfer") EXCEPT
        !.token_in = TokenInfo(ExternalAddress(p[1], NATIVE_KEY_SOL), "Unknown",
                               FloatStr(Abs(p[2])), DictGet(mint_decimals, p[1], 9)),
        !.from_ = signer,
        !.protocol = protocol]

SolTransferIn(p, mint_decimals, signer, protocol) ==
    [Action("transfer") EXCEPT
        !.token_out = TokenInfo(ExternalAddress(p[1], NATIVE_KEY_SOL), "Unknown",
                                FloatStr(p[2]), DictGet(mint_decimals, p[1], 9)),
        !.to = signer,
        !.protocol = protocol]

\* the swap / transfer branch over mint_deltas
SolFungible(mint_deltas, mint_decimals, signer, protocol) ==
    LET negative == SelectSeq(mint_deltas, BelowDust)
        positive == SelectSeq(mint_deltas, AboveDust)
    IN IF negative # <<>> /\ positive # <<>>
       THEN <<SolSwap(negative, positive, mint_decimals, protocol)>>
       ELSE IF negative # <<>>
       THEN [i \in 1..Len(negative) |->
                SolTransferOut(negative[i], mint_decimals, signer, protocol)]
       ELSE IF positive # <<>>
       THEN [i \in 1..Len(positive) |->
                SolTransferIn(positive[i], mint_decimals, signer, protocol)]
       ELSE <<>>

\* whether the call gets as far as the delta analysis
SolAnalysed(raw) == _get_signer(raw) # "" /\ ~_is_vote_transaction(raw)

SolMintDecimals(raw) ==
    MintDecimals(raw.meta.postTokenBalances, _get_signer(raw), AccountKeys(raw),
        MintDecimals(raw.meta.preTokenBalances, _get_signer(raw), AccountKeys(raw), <<>>))

\* mint_deltas as built by the loop over all_keys, NFT mints still in it
SolRawDeltas(raw, seed) ==
    LET pre_map == BalanceMap(raw.meta.preTokenBalances, _get_signer(raw), AccountKeys(raw), <<>>)
        post_map == BalanceMap(raw.meta.postTokenBalances, _get_signer(raw), AccountKeys(raw), <<>>)
        all_keys == DictKeySet(pre_map) \cup DictKeySet(post_map)
    IN MintDeltas(SetIterationOrder(all_keys, seed), pre_map, post_map, <<>>)

\* mint_deltas as the classification branch reads it: NFT mints removed,
\* the native key added
SolDeltas(raw, seed) ==
    LET mint_decimals == SolMintDecimals(raw)
        NotNft(p) == ~IsNftDelta(p, mint_decimals)
        fungible == SelectSeq(SolRawDeltas(raw, seed), NotNft)
        sol_delta == SolDelta(raw.meta)
    IN IF Abs(sol_delta) > DUST THEN DictSet(fungible, NATIVE_KEY_SOL, sol_delta) ELSE fungible

classify_solana_actions(raw, seed) ==
    LET signer == _get_signer(raw)
        protocol == _identify_protocol_sol(raw)
        mint_decimals == SolMintDecimals(raw)
        IsNft(p) == IsNftDelta(p, mint_decimals)
        nft_deltas == SelectSeq(SolRawDeltas(raw, seed), IsNft)
        nft_actions == [i \in 1..Len(nft_deltas) |-> SolNftAction(nft_deltas[i], signer, protocol)]
        listed == SolFungible(SolDeltas(raw, seed), mint_decimals, signer, protocol) \o nft_actions
    IN IF signer = "" THEN Return(<<>>)
       ELSE IF _is_vote_transaction(raw)
       THEN Return(<<[Action("contract_call") EXCEPT
                        !.note = "Validator Vote", !.from_ = signer]>>)
       ELSE IF listed # <<>> THEN Return(listed)
       ELSE Return(<<[Action("contract_call") EXCEPT !.protocol = protocol]>>)

(***************************************************************************)
(* app/classifiers/__init__.py                                             *)
(***************************************************************************)
MAX_DISPLAY_ACTIONS == 5

\* the overflow count taken as len - MAX_DISPLAY_ACTIONS
PostProcessOverflowOffByOne(list) ==
    IF list = <<>> THEN <<[Action("contract_call") EXCEPT !.primary = TRUE]>>
    ELSE LET marked == [list EXCEPT ![1].primary = TRUE]
             overflow_count == Len(marked) - MAX_DISPLAY_ACTIONS
         IN IF Len(marked) > MAX_DISPLAY_ACTIONS
            THEN Append(SubSeq(marked, 1, MAX_DISPLAY_ACTIONS - 1),
                        [Action("overflow") EXCEPT
                            !.count = overflow_count,
                            !.note = "and " \o IntStr(overflow_count) \o " more actions..."])
            ELSE marked

\* the list truncated as soon as it holds MAX_DISPLAY_ACTIONS actions
PostProcessOverflowAtLimit(list) ==
    IF list = <<>> THEN <<[Action("contract_call") EXCEPT !.primary = TRUE]>>
    ELSE LET marked == [list EXCEPT ![1].primary = TRUE]
             overflow_count == Len(marked) - MAX_DISPLAY_ACTIONS + 1
         IN IF Len(marked) >= MAX_DISPLAY_ACTIONS
            THEN Append(SubSeq(marked, 1, MAX_DISPLAY_ACTIONS - 1),
                        [Action("overflow") EXCEPT
                            !.count = overflow_count,
                            !.note = "and " \o IntStr(overflow_count) \o " more actions..."])
            ELSE marked

\* the tail of normalize_actions, on the list a classifier returned
PostProcess(list) ==
    IF list = <<>> THEN <<[Action("contract_call") EXCEPT !.primary = TRUE]>>
    ELSE LET marked == [list EXCEPT ![1].primary = TRUE]
             overflow_count == Len(marked) - MAX_DISPLAY_ACTIONS + 1
         IN IF Len(marked) > MAX_DISPLAY_ACTIONS
            THEN Append(SubSeq(marked, 1, MAX_DISPLAY_ACTIONS - 1),
                        [Action("overflow") EXCEPT
                            !.count = overflow_count,
                            !.note = "and " \o IntStr(overflow_count) \o " more actions..."])
            ELSE marked

\* the list the dispatched classifier returns, or its exception
Classify(raw, chain_tag, seed) ==
    IF chain_tag = "base" THEN classify_evm_actions(raw)
    ELSE classify_solana_actions(raw, seed)

\* a chain tag without a classifier handed to the EVM classifier
normalize_actionsDefaultsToEvm(raw, chain_tag, seed) ==
    LET r == IF chain_tag = "solana" THEN classify_solana_actions(raw, seed)
             ELSE classify_evm_actions(raw)
    IN IF r.raised THEN Raise ELSE Return(PostProcess(r.value))

normalize_actions(raw, chain_tag, seed) ==
    IF chain_tag \notin {"base", "solana"}
    THEN Return(<<[Action("contract_call") EXCEPT !.primary = TRUE]>>)
    ELSE LET r == Classify(raw, chain_tag, seed)
         IN IF r.raised THEN Raise ELSE Return(PostProcess(r.value))

(***************************************************************************)
(* Input bundles                                                           *)
(***************************************************************************)
MaxLogs == 2
MaxTokenAccounts == 2
MaxNormLogs == 6

USER == "0x" \o Rep("1a", 20)
USER_CHECKSUMMED == "0x" \o Rep("1A", 20)
OTHER_ADDRESS == "0x" \o Rep("22", 20)
ROUTER == "0x2626664C2603336E57B271c5C0b26F421741e481"
TOKEN_A == "0x" \o Rep("aa", 20)
TOKEN_A_CHECKSUMMED == "0x" \o Rep("aA", 20)
TOKEN_B == "0x" \o Rep("bb", 20)
NFT_CONTRACT == "0x" \o Rep("dd", 20)
DEPLOYED == "0x" \o Rep("cc", 20)
WETH == "0x4200000000000000000000000000000000000006"

\* a 32-byte topic holding an address
_pad_address(addr) == "0x" \o Rep("0", 24) \o SubSeq(addr, 3, Len(addr))

Log(address, topics, data) == [address |-> address, topics |-> topics, data |-> data]

TransferLog(token, from_addr, to_addr, data) ==
    Log(token, <<ERC20_TRANSFER, _pad_address(from_addr), _pad_address(to_addr)>>, data)

\* the acting account wraps one unit of native currency
DepositLog == Log(WETH, <<WETH_DEPOSIT, _pad_address(USER)>>, "0x1")

\* the acting account unwraps one unit
WithdrawalLog == Log(WETH, <<WETH_WITHDRAWAL, _pad_address(USER)>>, "0x1")

LogUniverse ==
    { TransferLog(TOKEN_A_CHECKSUMMED, USER, OTHER_ADDRESS, "0x1"),
      TransferLog(TOKEN_A, USER_CHECKSUMMED, OTHER_ADDRESS, "0x03"),
      TransferLog(TOKEN_B, OTHER_ADDRESS, USER, "0x2"),
      TransferLog(TOKEN_B, OTHER_ADDRESS, USER, "0x"),
      TransferLog(TOKEN_A, OTHER_ADDRESS, OTHER_ADDRESS, "0xzz"),
      TransferLog(WETH, OTHER_ADDRESS, USER, "0x1"),
      DepositLog,
      WithdrawalLog,
      Log(NFT_CONTRACT,
          <<ERC721_TRANSFER, _pad_address(OTHER_ADDRESS), _pad_address(USER), "0x" \o Rep("0", 63) \o "5">>,
          "0x"),
      Log(TOKEN_A, <<APPROVAL, _pad_address(USER), _pad_address(ROUTER)>>, "0x"),
      Log(TOKEN_B, <<ERC20_TRANSFER, _pad_address(USER)>>, "0x1") }

Transaction(from_addr, to_addr, value, input) ==
    [from |-> from_addr, to |-> to_addr, value |-> value, input |-> input]

Receipt(from_addr, to_addr, contract_address) ==
    [from |-> from_addr, to |-> to_addr, contractAddress |-> contract_address, logs |-> <<>>]

EvmBundle(tx, receipt) == [transaction |-> tx, receipt |-> receipt]

MULTICALL_INPUT == MULTICALL_SELECTOR \o Rep("00", 204)

\* bundles without logs
EvmBundles ==
    { EvmBundle(Transaction(USER_CHECKSUMMED, ROUTER, "0x0", "0x"), Receipt(USER, ROUTER, None)),
      EvmBundle(Transaction(USER, ROUTER, "0x2", MULTICALL_INPUT), Receipt(USER, ROUTER, None)),
      EvmBundle(Transaction(None, OTHER_ADDRESS, "0x0", "0xabcdef00"), Receipt(USER, OTHER_ADDRESS, None)),
      EvmBundle(Transaction(None, None, Missing, Missing), Receipt(None, None, None)),
      EvmBundle(Transaction(USER, None, "0x2", "0x6060604052"), Receipt(USER, None, DEPLOYED)),
      EvmBundle(Transaction(USER, OTHER_ADDRESS, "0x0", "0x"), Receipt(USER, OTHER_ADDRESS, DEPLOYED)),
      EvmBundle(Transaction(USER, None, "0x2", Missing), Receipt(None, None, None)) }

SIGNER == "Signer111111111111111111111111111111111111"
OTHER_ACCOUNT == "Other1111111111111111111111111111111111111"
JUPITER == "JUP6LkbZbjS1jKKwapdHNy74zcZ3tLUZoi5QNyVTaV4"
MINT_N == "MintN"
MINT_B == "MintB"
MINT_C == "MintC"

StrKey(pubkey) == [is_dict |-> FALSE, pubkey |-> pubkey]

DictKey(pubkey) == [is_dict |-> TRUE, pubkey |-> pubkey]

Message(account_keys, instructions) ==
    [accountKeys |-> account_keys, instructions |-> instructions]

Meta(pre, post, fee) ==
    [preBalances |-> pre, postBalances |-> post, fee |-> fee,
     preTokenBalances |-> <<>>, postTokenBalances |-> <<>>]

SolanaBundle(account_keys, instructions, meta) ==
    [transaction |-> [message |-> Message(account_keys, instructions)], meta |-> meta]

\* native balances: absent, fee only, a loss of 1e-6 (dust), a loss of 0.001,
\* a gain of 1e-5
Metas ==
    { Meta(<<>>, <<>>, NoneInt),
      Meta(<<10000000, 0>>, <<9995000, 0>>, 5000),
      Meta(<<10000000>>, <<9994000>>, 5000),
      Meta(<<10000000>>, <<8995000>>, 5000),
      Meta(<<10000000>>, <<10005000>>, 5000) }

\* a plain signer with each of the native balances; keys given as objects and
\* a known program; a vote transaction; no account keys
SolanaBundles ==
    { SolanaBundle(<<StrKey(SIGNER)>>, <<>>, meta) : meta \in Metas }
        \cup { SolanaBundle(<<DictKey(SIGNER), DictKey(OTHER_ACCOUNT)>>, <<[programId |-> JUPITER]>>,
                            Meta(<<10000000, 0>>, <<9995000, 0>>, 5000)),
               SolanaBundle(<<StrKey(SIGNER), DictKey(VOTE_PROGRAM)>>, <<>>,
                            Meta(<<10000000>>, <<8995000>>, 5000)),
               SolanaBundle(<<StrKey(SIGNER)>>, <<[programId |-> JUPITER], [programId |-> VOTE_PROGRAM]>>,
                            Meta(<<10000000>>, <<8995000>>, 5000)),
               SolanaBundle(<<>>, <<[programId |-> Missing]>>, Meta(<<>>, <<>>, NoneInt)) }

TokenBalance(account_index, mint, owner, ui_amount, decimals) ==
    [accountIndex |-> account_index, mint |-> mint, owner |-> owner,
     uiAmount |-> ui_amount, decimals |-> decimals]

\* a token account of the transaction: its entry in preTokenBalances and in
\* postTokenBalances, <<>> where it has none
TokenAccount(pre, post) == [pre |-> pre, post |-> post]

TokenAccounts ==
    { TokenAccount(<<>>, <<TokenBalance(1, MINT_N, SIGNER, NANO, 0)>>),
      TokenAccount(<<TokenBalance(2, MINT_N, SIGNER, NANO, 0)>>,
                   <<TokenBalance(2, MINT_N, SIGNER, NoneInt, 0)>>),
      TokenAccount(<<TokenBalance(2, MINT_B, SIGNER, 500000000, 6)>>,
                   <<TokenBalance(2, MINT_B, SIGNER, NoneInt, 6)>>),
      TokenAccount(<<TokenBalance(0, MINT_B, Missing, 1000, 6)>>,
                   <<TokenBalance(0, MINT_B, Missing, 2000, 6)>>),
      TokenAccount(<<>>, <<TokenBalance(3, MINT_B, SIGNER, 500000000, 6)>>),
      TokenAccount(<<>>, <<TokenBalance(2, MINT_C, SIGNER, 250000000, 9)>>),
      TokenAccount(<<TokenBalance(3, MINT_C, SIGNER, 500000000, 9)>>, <<>>),
      TokenAccount(<<TokenBalance(1, MINT_B, OTHER_ACCOUNT, 0, 6)>>,
                   <<TokenBalance(1, MINT_B, OTHER_ACCOUNT, 500000000, 6)>>) }

Permutations3(a, b, c) ==
    {<<a, b, c>>, <<a, c, b>>, <<b, a, c>>, <<b, c, a>>, <<c, a, b>>, <<c, b, a>>}

\* The str hash seeds an interpreter process can start with
\* (PYTHONHASHSEED), told apart by the order in which they make a set of
\* keys visit the mints.  Only classify_solana_actions iterates a set.
HashSeeds == Permutations3(MINT_N, MINT_B, MINT_C)

\* the seeds that can tell two calls on a chain apart
SeedsRead(chain_tag) ==
    IF chain_tag = "solana" THEN HashSeeds ELSE {<<MINT_N, MINT_B, MINT_C>>}

\* logs that each add one action to the classifier's list
NormLogUniverse ==
    { Log(NFT_CONTRACT,
          <<ERC721_TRANSFER, _pad_address(OTHER_ADDRESS), _pad_address(USER),
            "0x" \o Rep("0", 63) \o "5">>,
          "0x"),
      Log(TOKEN_A, <<APPROVAL, _pad_address(USER), _pad_address(ROUTER)>>, "0x") }

\* solana bundles for normalize_actions: no account keys, and a signer paying
\* the fee only
NormSolanaBundles ==
    { SolanaBundle(<<>>, <<>>, Meta(<<>>, <<>>, NoneInt)),
      SolanaBundle(<<StrKey(SIGNER)>>, <<>>, Meta(<<10000000, 0>>, <<9995000, 0>>, 5000)) }

\* a bundle on which classify_evm_actions raises
MalformedBundle ==
    EvmBundle(Transaction(USER, ROUTER, "0x0", "0x"),
              [Receipt(USER, ROUTER, None) EXCEPT
                  !.logs = <<TransferLog(TOKEN_A, OTHER_ADDRESS, OTHER_ADDRESS, "0xzz")>>])

NormBundles ==
    { EvmBundle(Transaction(USER, OTHER_ADDRESS, "0x0", "0x"), Receipt(USER, OTHER_ADDRESS, None)),
      EvmBundle(Transaction(USER, OTHER_ADDRESS, "0x1", "0x"), Receipt(USER, OTHER_ADDRESS, None)),
      EvmBundle(Transaction(None, OTHER_ADDRESS, "0x0", "0x"), Receipt(None, OTHER_ADDRESS, None)) }

(***************************************************************************)
(* app/cache/manager.py: the in-memory TransactionCache.  The cache object *)
(* is the record [_store, _max_entries]; _store is the OrderedDict as a    *)
(* sequence of <<key, entry>> pairs, oldest first.  time.monotonic() is an *)
(* integer number of seconds handed to each operation as t.                *)
(***************************************************************************)
DEFAULT_TTL == 300
PENDING_TTL == 15
NOT_FOUND_TTL == 30
MAX_ENTRIES == 1000

\* _SENTINEL, an object equal to nothing but itself
CACHE_MISS == [miss |-> TRUE]

\* the fields of a NormalizedTransaction the caches and the route read
NormalizedTransaction(chain_tag, tx_hash, status) ==
    [chain |-> chain_tag, tx_hash |-> tx_hash, status |-> status]

_CacheEntry(data, ttl, t) == [data |-> data, expires_at |-> t + ttl]

TransactionCache(max_entries) == [_store |-> <<>>, _max_entries |-> max_entries]

_key(chain_tag, tx_hash) == chain_tag \o ":" \o tx_hash

\* the keys held by the store, as a set
StoreKeys(store) == {store[i][1] : i \in 1..Len(store)}

\* get that leaves a served entry where it is in the store
getWithoutMoveToEnd(cache, t, chain_tag, tx_hash) ==
    LET key == _key(chain_tag, tx_hash)
        entry == DictGet(cache._store, key, CACHE_MISS)
    IN IF entry = CACHE_MISS THEN [value |-> CACHE_MISS, cache |-> cache]
       ELSE IF t > entry.expires_at
       THEN [value |-> CACHE_MISS, cache |-> [cache EXCEPT !._store = DictPop(@, key)]]
       ELSE [value |-> entry.data, cache |-> cache]

\* get that treats the expiry instant itself as expired
getExpiredAtInstant(cache, t, chain_tag, tx_hash) ==
    LET key == _key(chain_tag, tx_hash)
        entry == DictGet(cache._store, key, CACHE_MISS)
    IN IF entry = CACHE_MISS THEN [value |-> CACHE_MISS, cache |-> cache]
       ELSE IF t >= entry.expires_at
       THEN [value |-> CACHE_MISS, cache |-> [cache EXCEPT !._store = DictPop(@, key)]]
       ELSE [value |-> entry.data,
             cache |-> [cache EXCEPT !._store = Append(DictPop(@, key), <<key, entry>>)]]

\* TransactionCache.get: the value returned and the cache it leaves
get(cache, t, chain_tag, tx_hash) ==
    LET key == _key(chain_tag, tx_hash)
        entry == DictGet(cache._store, key, CACHE_MISS)
    IN IF entry = CACHE_MISS THEN [value |-> CACHE_MISS, cache |-> cache]
       ELSE IF t > entry.expires_at
       THEN [value |-> CACHE_MISS, cache |-> [cache EXCEPT !._store = DictPop(@, key)]]
       ELSE [value |-> entry.data,
             cache |-> [cache EXCEPT !._store = Append(DictPop(@, key), <<key, entry>>)]]

\* a ttl selection without the case of a pending transaction
EntryTtlWithoutPending(data, ttl) ==
    IF ttl # NoneInt THEN ttl
    ELSE IF data = NoneObj THEN NOT_FOUND_TTL
    ELSE DEFAULT_TTL

\* the ttl a set without a ttl argument (ttl = NoneInt) picks from the data
EntryTtl(data, ttl) ==
    IF ttl # NoneInt THEN ttl
    ELSE IF data = NoneObj THEN NOT_FOUND_TTL
    ELSE IF data.status = "pending" THEN PENDING_TTL
    ELSE DEFAULT_TTL

\* while len(self._store) > self._max_entries: self._store.popitem(last=False)
RECURSIVE PopOldest(_, _)
PopOldest(store, max_entries) ==
    IF Len(store) > max_entries THEN PopOldest(Tail(store), max_entries) ELSE store

\* TransactionCache.set: the cache it leaves
set(cache, t, chain_tag, tx_hash, data, ttl) ==
    LET key == _key(chain_tag, tx_hash)
        entry == _CacheEntry(data, EntryTtl(data, ttl), t)
    IN [cache EXCEPT
           !._store = PopOldest(Append(DictPop(@, key), <<key, entry>>), cache._max_entries)]

\* TransactionCache.clear
clear(cache) == [cache EXCEPT !._store = <<>>]

(***************************************************************************)
(* app/cache/file_cache.py: the FileCache.  The cache directory is a       *)
(* function from file names to files; a file is NoFile or the record       *)
(* [exists, content, mtime].  time.time() is handed to each operation as   *)
(* t, in seconds.  A get returns the record [value, files]: what the caller *)
(* receives and the directory the call leaves.                             *)
(***************************************************************************)
CONFIRMED_TTL == 30 * 86400

FileCache_PENDING_TTL == 20

FileCache_NOT_FOUND_TTL == 30

NoFile == [exists |-> FALSE]

\* path.write_text / path.write_bytes at time t
WrittenFile(content, t) == [exists |-> TRUE, content |-> content, mtime |-> t]

_image_key(chain_tag, tx_hash, template) ==
    "receipt_" \o chain_tag \o "_" \o tx_hash \o "_" \o template \o ".png"

_summary_key(chain_tag, tx_hash) == "receipt_" \o chain_tag \o "_" \o tx_hash \o ".json"

_negative_key(chain_tag, tx_hash) == "neg_" \o chain_tag \o "_" \o tx_hash \o ".txt"

_is_expired(file, ttl, t) == IF ~file.exists THEN TRUE ELSE t - file.mtime > ttl

\* path.unlink(missing_ok=True)
Unlink(fs, name) == [fs EXCEPT ![name] = NoFile]

\* json.dumps(summary, default=str) and json.loads: the text of a summary
\* is told apart from the summary, and parses back to it
json_dumps(summary) == [json_text_of |-> summary]

json_loads(text) == text.json_text_of

get_image(fs, t, chain_tag, tx_hash, template) ==
    LET name == _image_key(chain_tag, tx_hash, template) IN
    IF ~fs[name].exists THEN [value |-> NoneObj, files |-> fs]
    ELSE IF _is_expired(fs[name], CONFIRMED_TTL, t)
    THEN [value |-> NoneObj, files |-> Unlink(fs, name)]
    ELSE [value |-> fs[name].content, files |-> fs]

set_image(fs, t, chain_tag, tx_hash, template, data) ==
    [fs EXCEPT ![_image_key(chain_tag, tx_hash, template)] = WrittenFile(data, t)]

\* get_summary that never finds a summary
get_summaryAlwaysMisses(fs, t, chain_tag, tx_hash) == [value |-> NoneObj, files |-> fs]

get_summary(fs, t, chain_tag, tx_hash) ==
    LET name == _summary_key(chain_tag, tx_hash) IN
    IF ~fs[name].exists THEN [value |-> NoneObj, files |-> fs]
    ELSE IF _is_expired(fs[name], CONFIRMED_TTL, t)
    THEN [value |-> NoneObj, files |-> Unlink(fs, name)]
    ELSE [value |-> json_loads(fs[name].content), files |-> fs]

set_summary(fs, t, chain_tag, tx_hash, summary) ==
    [fs EXCEPT ![_summary_key(chain_tag, tx_hash)] = WrittenFile(json_dumps(summary), t)]

\* the states written are "pending" and "not_found", which strip() leaves as
\* they are
get_negative(fs, t, chain_tag, tx_hash) ==
    LET name == _negative_key(chain_tag, tx_hash) IN
    IF ~fs[name].exists THEN [value |-> None, files |-> fs]
    ELSE LET content == fs[name].content
             ttl == IF content = "pending" THEN FileCache_PENDING_TTL
                    ELSE FileCache_NOT_FOUND_TTL
         IN IF _is_expired(fs[name], ttl, t)
            THEN [value |-> None, files |-> Unlink(fs, name)]
            ELSE [value |-> content, files |-> fs]

set_negative(fs, t, chain_tag, tx_hash, state) ==
    [fs EXCEPT ![_negative_key(chain_tag, tx_hash)] = WrittenFile(state, t)]

(***************************************************************************)
(* app/fetchers: what fetch_transaction does with the provider's answer.   *)
(* The answer for a base hash is the pair of results of                    *)
(* eth_getTransactionByHash and eth_getTransactionReceipt, for a solana    *)
(* signature the result of getTransaction; "unknown" stands for null       *)
(* results, "pending" for a transaction without a receipt, "confirmed" for *)
(* a transaction with a receipt of status 1 (base) or a result without     *)
(* err (solana).                                                           *)
(***************************************************************************)
HTTPException(status_code) == [raised |-> TRUE, status_code |-> status_code]

fetch_base_transaction(answer, tx_hash) ==
    IF answer = "timeout" THEN HTTPException(504)
    ELSE IF answer = "unknown" THEN HTTPException(404)
    ELSE IF answer = "pending" THEN Return(NormalizedTransaction("base", tx_hash, "pending"))
    ELSE Return(NormalizedTransaction("base", tx_hash, "confirmed"))

fetch_solana_transaction(answer, signature) ==
    IF answer = "timeout" THEN HTTPException(504)
    ELSE IF answer = "unknown" THEN HTTPException(404)
    ELSE Return(NormalizedTransaction("solana", signature, "confirmed"))

fetch_transaction(answer, chain_tag, tx_hash) ==
    IF chain_tag = "base" THEN fetch_base_transaction(answer, tx_hash)
    ELSE fetch_solana_transaction(answer, tx_hash)

(***************************************************************************)
(* app/renderer/card.py: the summary of a rendered transaction             *)
(***************************************************************************)
build_summary(normalized_tx) ==
    [chain |-> normalized_tx.chain, tx_hash |-> normalized_tx.tx_hash,
     status |-> normalized_tx.status]

\* the PNG bytes of a card
CardImage(normalized_tx, template) == [png_of |-> normalized_tx.tx_hash, template |-> template]

(***************************************************************************)
(* The callers of the core                                                 *)
(***************************************************************************)
NoCall == Return(<<>>)

\* no cache operation has happened
NoOperation == [op |-> "none"]

NeverSet == [set |-> FALSE]

CacheIdle ==
    /\ tx_cache = TransactionCache(MAX_ENTRIES)
    /\ now = 0
    /\ ops = 0
    /\ result = NoOperation
    /\ uses = <<>>
    /\ latest = <<>>

NoRequest == [pc |-> "none"]

HttpIdle ==
    /\ files = <<>>
    /\ ledger = <<>>
    /\ request = NoRequest
    /\ answers = <<>>

ServiceIdle == CacheIdle /\ HttpIdle

InitCommon ==
    /\ pc = "input"
    /\ actions = NoCall
    /\ again = NoCall
    /\ normalized = NoCall
    /\ ServiceIdle

Init ==
    /\ \/ chain = "base" /\ raw_tx \in EvmBundles
       \/ chain = "solana" /\ raw_tx \in SolanaBundles
    /\ InitCommon

\* the provider's receipt carries one more log
AppendLog ==
    /\ pc = "input"
    /\ chain = "base"
    /\ Len(raw_tx.receipt.logs) < MaxLogs
    /\ \E log \in LogUniverse :
           raw_tx' = [raw_tx EXCEPT !.receipt.logs = Append(@, log)]
    /\ UNCHANGED <<chain, pc, actions, again, normalized>>
    /\ UNCHANGED serviceVars

\* the provider's meta carries the balances of one more token account
AppendTokenAccount ==
    /\ pc = "input"
    /\ chain = "solana"
    /\ Len(raw_tx.meta.preTokenBalances) < MaxTokenAccounts
    /\ Len(raw_tx.meta.postTokenBalances) < MaxTokenAccounts
    /\ \E account \in TokenAccounts :
           raw_tx' = [raw_tx EXCEPT !.meta.preTokenBalances = @ \o account.pre,
                                    !.meta.postTokenBalances = @ \o account.post]
    /\ UNCHANGED <<chain, pc, actions, again, normalized>>
    /\ UNCHANGED serviceVars

\* classify_evm_actions(raw_tx) or classify_solana_actions(raw_tx), in an
\* interpreter process started with some hash seed
CallClassifier ==
    /\ pc = "input"
    /\ chain \in {"base", "solana"}
    /\ \E seed \in SeedsRead(chain) : actions' = Classify(raw_tx, chain, seed)
    /\ pc' = "classified"
    /\ UNCHANGED <<chain, raw_tx, again, normalized>>
    /\ UNCHANGED serviceVars

\* the same call on the same bundle, in a process started with some hash seed
CallAgain ==
    /\ pc = "classified"
    /\ \E seed \in SeedsRead(chain) : again' = Classify(raw_tx, chain, seed)
    /\ pc' = "reclassified"
    /\ UNCHANGED <<chain, raw_tx, actions, normalized>>
    /\ UNCHANGED serviceVars

\* normalize_actions(raw_tx, chain)
CallNormalize ==
    /\ pc = "input"
    /\ \E seed \in SeedsRead(chain) : normalized' = normalize_actions(raw_tx, chain, seed)
    /\ pc' = "normalized"
    /\ UNCHANGED <<chain, raw_tx, actions, again>>
    /\ UNCHANGED serviceVars

Next == AppendLog \/ AppendTokenAccount \/ CallClassifier \/ CallAgain \/ CallNormalize

Spec == Init /\ [][Next]_vars

\* normalize_actions on bundles whose logs each add an action, and on chain
\* tags without a classifier
InitNorm ==
    /\ \/ chain = "base" /\ raw_tx \in NormBundles
       \/ chain = "solana" /\ raw_tx \in NormSolanaBundles
       \/ /\ chain \in {"ethereum", ""}
          /\ raw_tx \in NormBundles \cup NormSolanaBundles \cup {MalformedBundle}
    /\ InitCommon

AppendNormLog ==
    /\ pc = "input"
    /\ chain = "base"
    /\ Len(raw_tx.receipt.logs) < MaxNormLogs
    /\ \E log \in NormLogUniverse :
           raw_tx' = [raw_tx EXCEPT !.receipt.logs = Append(@, log)]
    /\ UNCHANGED <<chain, pc, actions, again, normalized>>
    /\ UNCHANGED serviceVars

NextNorm == AppendNormLog \/ AppendTokenAccount \/ CallNormalize

SpecNorm == InitNorm /\ [][NextNorm]_vars

(***************************************************************************)
(* Properties of the returned lists                                        *)
(***************************************************************************)
HasType(list, t) == \E i \in 1..Len(list) : list[i].type = t

CountType(list, t) == Cardinality({i \in 1..Len(list) : list[i].type = t})

IsFungible(a) == a.type \in {"swap", "transfer"}

\* the token addresses an action carries
TokenAddresses(a) ==
    (IF a.token_in = NoneObj THEN {} ELSE {a.token_in.address})
        \cup (IF a.token_out = NoneObj THEN {} ELSE {a.token_out.address})

\* whether the call on the bundle gets as far as the delta analysis
Analysed(raw, chain_tag) ==
    IF chain_tag = "base" THEN EvmAnalysed(raw) ELSE SolAnalysed(raw)

\* the folded delta map; its entries do not depend on the hash seed, only
\* their order does
Deltas(raw, chain_tag) ==
    IF chain_tag = "base" THEN EvmDeltas(raw) ELSE SolDeltas(raw, <<MINT_N, MINT_B, MINT_C>>)

DeltaSet(raw, chain_tag) ==
    LET deltas == Deltas(raw, chain_tag)
    IN {deltas[i] : i \in 1..Len(deltas)}

NativeKey(chain_tag) == IF chain_tag = "base" THEN NATIVE_KEY_EVM ELSE NATIVE_KEY_SOL

\* the amount string of a delta magnitude: str(int) on base, str(float) on solana
AmountStr(n, chain_tag) == IF chain_tag = "base" THEN IntStr(n) ELSE FloatStr(n)

\* a direct classifier call has returned a list
Classified == pc = "classified" /\ ~actions.raised

(* C1, as stated: the returned list contains a swap iff the folded delta    *)
(* map holds a strictly negative and a strictly positive delta.             *)
C1_SwapIffSignedDeltas ==
    Classified =>
        (HasType(actions.value, "swap") <=>
            /\ Analysed(raw_tx, chain)
            /\ \E p \in DeltaSet(raw_tx, chain) : p[2] < 0
            /\ \E p \in DeltaSet(raw_tx, chain) : p[2] > 0)

\* the magnitude a delta must exceed to take part in the classification
Threshold(chain_tag) == IF chain_tag = "base" THEN 0 ELSE DUST

(* C1, amended: the returned list contains a swap iff the call reaches the  *)
(* delta analysis and the folded map holds a delta below -T and a delta     *)
(* above +T, with T = 0 on base and T = 1e-6 (the dust threshold) on solana.*)
C1_SwapIffDeltasBeyondThreshold ==
    Classified =>
        (HasType(actions.value, "swap") <=>
            /\ Analysed(raw_tx, chain)
            /\ \E p \in DeltaSet(raw_tx, chain) : p[2] < -Threshold(chain)
            /\ \E p \in DeltaSet(raw_tx, chain) : p[2] > Threshold(chain))

\* a solana call whose map holds a real loss and a gain of no more than dust
\* returned a transfer, and no swap
C1_Witness ==
    /\ Classified
    /\ chain = "solana"
    /\ \E p \in DeltaSet(raw_tx, chain) : p[2] < -DUST
    /\ \E p \in DeltaSet(raw_tx, chain) : p[2] > 0 /\ p[2] <= DUST
    /\ HasType(actions.value, "transfer")
    /\ ~HasType(actions.value, "swap")

(* C2: no returned list holds both a swap and a transfer, and none holds    *)
(* more than one swap.                                                      *)
C2_SwapExcludesTransfer ==
    Classified =>
        /\ ~(HasType(actions.value, "swap") /\ HasType(actions.value, "transfer"))
        /\ CountType(actions.value, "swap") <= 1

\* a swap returned although three assets have deltas beyond the threshold
C2_Witness ==
    /\ Classified
    /\ HasType(actions.value, "swap")
    /\ Cardinality({p \in DeltaSet(raw_tx, chain) : Abs(p[2]) > Threshold(chain)}) >= 3

(* C3: when a swap is returned, token_in is an asset whose delta is the     *)
(* least of the folded map and token_out one whose delta is the greatest,   *)
(* each amount is the string of the magnitude of that delta, and no swap or *)
(* transfer action is returned for any other asset.                         *)
C3_SwapLegsAreExtremes ==
    Classified /\ HasType(actions.value, "swap") =>
        LET swap == actions.value[CHOOSE i \in 1..Len(actions.value) :
                                     actions.value[i].type = "swap"]
            D == DeltaSet(raw_tx, chain)
            Ext(k) == ExternalAddress(k, NativeKey(chain))
        IN /\ \E p \in D :
                  /\ \A q \in D : p[2] <= q[2]
                  /\ swap.token_in.address = Ext(p[1])
                  /\ swap.token_in.amount = AmountStr(-p[2], chain)
           /\ \E p \in D :
                  /\ \A q \in D : p[2] >= q[2]
                  /\ swap.token_out.address = Ext(p[1])
                  /\ swap.token_out.amount = AmountStr(p[2], chain)
           /\ Cardinality({i \in 1..Len(actions.value) : IsFungible(actions.value[i])}) = 1
           /\ \A p \in D :
                  Ext(p[1]) \notin {swap.token_in.address, swap.token_out.address} =>
                      \A i \in 1..Len(actions.value) :
                          IsFungible(actions.value[i]) =>
                              Ext(p[1]) \notin TokenAddresses(actions.value[i])

\* a swap over a map with two different losses and a gain
C3_Witness ==
    /\ Classified
    /\ HasType(actions.value, "swap")
    /\ \E p, q \in DeltaSet(raw_tx, chain) : p[2] < q[2] /\ q[2] < -Threshold(chain)
    /\ \E p \in DeltaSet(raw_tx, chain) : p[2] > Threshold(chain)

\* normalize_actions has returned a list
Normalized == pc = "normalized" /\ ~normalized.raised

(* C4: for every chain tag and every bundle, normalize_actions returns a    *)
(* non-empty list whose first action has primary = true and whose other     *)
(* actions have primary = false.                                            *)
C4_NormalizeReturnsPrimaryFirst ==
    pc = "normalized" =>
        /\ ~normalized.raised
        /\ normalized.value # <<>>
        /\ normalized.value[1].primary
        /\ \A i \in 2..Len(normalized.value) : ~normalized.value[i].primary

\* the lists a classifier call on the bundle can return
ClassifierLists == {Classify(raw_tx, chain, seed).value : seed \in SeedsRead(chain)}

\* the list with its first action marked primary
Marked(list) == [i \in 1..Len(list) |-> IF i = 1 THEN [list[i] EXCEPT !.primary = TRUE] ELSE list[i]]

(* C5: when the classifier returns N > 5 actions, normalize_actions returns *)
(* exactly 5: the classifier's first 4 in their order, then one overflow    *)
(* action whose count is N - 4.                                             *)
C5_OverflowKeepsFourAndCounts ==
    Normalized /\ chain \in {"base", "solana"} =>
        ((\E c \in ClassifierLists : Len(c) > MAX_DISPLAY_ACTIONS) =>
            \E c \in ClassifierLists :
                /\ Len(c) > MAX_DISPLAY_ACTIONS
                /\ Len(normalized.value) = 5
                /\ SubSeq(normalized.value, 1, 4) = SubSeq(Marked(c), 1, 4)
                /\ normalized.value[5].type = "overflow"
                /\ normalized.value[5].count = Len(c) - 4)

\* seven classified actions normalized to four and an overflow of three
C5_Witness ==
    /\ Normalized
    /\ chain = "base"
    /\ \E c \in ClassifierLists : Len(c) = 7
    /\ Len(normalized.value) = 5
    /\ normalized.value[5].count = 3

(* C6: when the classifier returns between 1 and 5 actions, normalize_      *)
(* actions returns those actions in the same order (the first one marked    *)
(* primary) with no overflow action; an overflow action is in the           *)
(* normalized list only when the classifier returned more than 5.           *)
C6_UpToFiveUnchanged ==
    Normalized =>
        /\ chain \in {"base", "solana"} =>
              ((\E c \in ClassifierLists : Len(c) \in 1..MAX_DISPLAY_ACTIONS) =>
                  /\ \E c \in ClassifierLists : normalized.value = Marked(c)
                  /\ ~HasType(normalized.value, "overflow"))
        /\ HasType(normalized.value, "overflow") =>
              /\ chain \in {"base", "solana"}
              /\ \E c \in ClassifierLists : Len(c) > MAX_DISPLAY_ACTIONS

\* exactly five classified actions came back as five
C6_Witness ==
    /\ Normalized
    /\ chain = "base"
    /\ \E c \in ClassifierLists : Len(c) = MAX_DISPLAY_ACTIONS /\ normalized.value = Marked(c)

\* how often the log is in the receipt
LogCount(raw, log) ==
    Cardinality({i \in 1..Len(raw.receipt.logs) : raw.receipt.logs[i] = log})

\* the acting account wrapped and unwrapped the same amount
RoundTrip(raw) ==
    /\ LogCount(raw, DepositLog) >= 1
    /\ LogCount(raw, DepositLog) = LogCount(raw, WithdrawalLog)

\* no ERC-20 Transfer log of a wrapped-native contract
NoWethTransfer(raw) ==
    \A i \in 1..Len(raw.receipt.logs) :
        LET log == raw.receipt.logs[i]
        IN ~(/\ Lower(log.address) \in WETH_ADDRESSES
             /\ Len(log.topics) >= 3
             /\ log.topics[1] = ERC20_TRANSFER)

C8_SameBundleSameActions ==
    pc = "reclassified" => again = actions

(* C9: no classifier call raises; each returns a list of actions.           *)
C9_ClassifierNeverRaises ==
    pc = "classified" => ~actions.raised

\* the bundle names no acting account
NoActingAccount(raw, chain_tag) ==
    IF chain_tag = "base"
    THEN ~Truthy(raw.transaction.from) /\ ~Truthy(raw.receipt.from)
    ELSE AccountKeys(raw) = <<>>

(* C10: a classifier returns the empty list iff the bundle names no acting  *)
(* account, and at least one action otherwise; on a bundle without acting   *)
(* account normalize_actions returns exactly one primary contract_call.     *)
C10_EmptyIffNoActingAccount ==
    /\ pc = "classified" =>
          /\ ~actions.raised
          /\ actions.value = <<>> <=> NoActingAccount(raw_tx, chain)
    /\ pc = "normalized" /\ chain \in {"base", "solana"} /\ NoActingAccount(raw_tx, chain) =>
          /\ ~normalized.raised
          /\ Len(normalized.value) = 1
          /\ normalized.value[1].type = "contract_call"
          /\ normalized.value[1].primary

(* C11: for a chain tag other than "base" and "solana", normalize_actions   *)
(* returns exactly one action, a contract_call with primary = true,         *)
(* whatever the bundle, and calls no classifier.                            *)
C11_OtherChainSinglePrimaryCall ==
    pc = "normalized" /\ chain \notin {"base", "solana"} =>
        /\ ~normalized.raised
        /\ Len(normalized.value) = 1
        /\ normalized.value[1].type = "contract_call"
        /\ normalized.value[1].primary

\* an unknown chain tag with a bundle on which the EVM classifier raises
C11_Witness ==
    /\ pc = "normalized"
    /\ chain = "ethereum"
    /\ classify_evm_actions(raw_tx).raised
    /\ ~normalized.raised

(* C12: when receipt.contractAddress is set and transaction.to is absent,   *)
(* classify_evm_actions (called with an acting account) returns exactly one *)
(* action, a contract_call whose note contains "Contract Deployed" and      *)
(* whose `to` is the contract address, whatever the logs and the value.     *)
C12_CreationShortCircuits ==
    /\ pc = "classified"
    /\ chain = "base"
    /\ ~NoActingAccount(raw_tx, chain)
    /\ raw_tx.receipt.contractAddress \notin {None, ""}
    /\ raw_tx.transaction.to \in {None, ""}
    => /\ ~actions.raised
       /\ Len(actions.value) = 1
       /\ actions.value[1].type = "contract_call"
       /\ Prefix(actions.value[1].note, 17) = "Contract Deployed"
       /\ actions.value[1].note = "Contract Deployed: " \o raw_tx.receipt.contractAddress
       /\ actions.value[1].to = raw_tx.receipt.contractAddress

\* a creation sending value, with a log of the acting account and a log whose
\* data is not hexadecimal
C12_Witness ==
    /\ Classified
    /\ chain = "base"
    /\ raw_tx.receipt.contractAddress = DEPLOYED
    /\ raw_tx.transaction.to = None
    /\ raw_tx.transaction.value = "0x2"
    /\ \E i \in 1..Len(raw_tx.receipt.logs) : raw_tx.receipt.logs[i].data = "0xzz"
    /\ \E i \in 1..Len(raw_tx.receipt.logs) :
           raw_tx.receipt.logs[i] = TransferLog(TOKEN_B, OTHER_ADDRESS, USER, "0x2")
    /\ Len(actions.value) = 1

\* the Vote program id is among the account keys or the instructions' programIds
VoteProgramNamed(raw) ==
    \/ \E i \in 1..Len(raw.transaction.message.accountKeys) :
           raw.transaction.message.accountKeys[i].pubkey = VOTE_PROGRAM
    \/ \E i \in 1..Len(raw.transaction.message.instructions) :
           raw.transaction.message.instructions[i].programId = VOTE_PROGRAM

(* C13: when the Vote program id is among accountKeys or is the programId   *)
(* of an instruction, classify_solana_actions (called with an acting        *)
(* account) returns exactly one action, a contract_call with note           *)
(* "Validator Vote", whatever the balance deltas.                           *)
C13_VoteShortCircuits ==
    /\ pc = "classified"
    /\ chain = "solana"
    /\ ~NoActingAccount(raw_tx, chain)
    /\ VoteProgramNamed(raw_tx)
    => /\ ~actions.raised
       /\ Len(actions.value) = 1
       /\ actions.value[1].type = "contract_call"
       /\ actions.value[1].note = "Validator Vote"

\* a vote named by an instruction only, in a bundle with a native loss and a
\* token loss of the signer
C13_Witness ==
    /\ Classified
    /\ chain = "solana"
    /\ \E i \in 1..Len(Instructions(raw_tx)) : Instructions(raw_tx)[i].programId = VOTE_PROGRAM
    /\ \A i \in 1..Len(AccountKeys(raw_tx)) : Pubkey(AccountKeys(raw_tx)[i]) # VOTE_PROGRAM
    /\ SolDelta(raw_tx.meta) < -DUST
    /\ \E i \in 1..Len(SolRawDeltas(raw_tx, <<MINT_N, MINT_B, MINT_C>>)) :
           SolRawDeltas(raw_tx, <<MINT_N, MINT_B, MINT_C>>)[i][2] < -DUST
    /\ actions.value[1].note = "Validator Vote"

\* a solana call that got as far as the delta analysis has returned
SolClassified == Classified /\ chain = "solana" /\ SolAnalysed(raw_tx)

\* the per-mint deltas of the acting account, NFT mints included
RawDeltaSet(raw) ==
    {SolRawDeltas(raw, <<MINT_N, MINT_B, MINT_C>>)[i] :
        i \in 1..Len(SolRawDeltas(raw, <<MINT_N, MINT_B, MINT_C>>))}

\* the positions of the nft_transfer actions of a mint
NftActionsOf(list, mint) ==
    {i \in 1..Len(list) : list[i].type = "nft_transfer" /\ mint \in TokenAddresses(list[i])}

(* C14: for a mint with decimals 0 whose net delta for the acting account   *)
(* is exactly +1 (resp. -1), classify_solana_actions emits one nft_transfer *)
(* with `to` (resp. `from_`) the acting account, and the mint is the token  *)
(* of no swap or transfer action of the result.                             *)
C14_UnitDeltaIsNftTransfer ==
    SolClassified =>
        \A p \in RawDeltaSet(raw_tx) :
            DictGet(SolMintDecimals(raw_tx), p[1], 0) = 0 /\ p[2] \in {NANO, -NANO} =>
                /\ Cardinality(NftActionsOf(actions.value, p[1])) = 1
                /\ \A i \in NftActionsOf(actions.value, p[1]) :
                       IF p[2] = NANO
                       THEN /\ actions.value[i].to = _get_signer(raw_tx)
                            /\ actions.value[i].token_out # NoneObj
                            /\ actions.value[i].token_out.address = p[1]
                       ELSE /\ actions.value[i].from_ = _get_signer(raw_tx)
                            /\ actions.value[i].token_in # NoneObj
                            /\ actions.value[i].token_in.address = p[1]
                /\ \A i \in 1..Len(actions.value) :
                       IsFungible(actions.value[i]) => p[1] \notin TokenAddresses(actions.value[i])

\* an NFT leaves the acting account in a call that also returns a swap or a
\* transfer
C14_Witness ==
    /\ SolClassified
    /\ \E p \in RawDeltaSet(raw_tx) : p[1] = MINT_N /\ p[2] = -NANO
    /\ \E i \in 1..Len(actions.value) : IsFungible(actions.value[i])
    /\ NftActionsOf(actions.value, MINT_N) # {}

\* the fungible actions naming an address
FungibleActionsOf(list, address) ==
    {i \in 1..Len(list) : IsFungible(list[i]) /\ address \in TokenAddresses(list[i])}

(* C15: in classify_solana_actions a delta (native or per-mint, not an NFT  *)
(* mint) of magnitude at most 1e-6 is in no swap or transfer action; one of *)
(* greater magnitude is classified: the result holds a swap, or a transfer  *)
(* of that asset for that magnitude.                                        *)
C15_DustExcluded ==
    SolClassified =>
        /\ \A p \in RawDeltaSet(raw_tx) :
               ~IsNftDelta(p, SolMintDecimals(raw_tx)) /\ Abs(p[2]) <= DUST =>
                   FungibleActionsOf(actions.value, p[1]) = {}
        /\ Abs(SolDelta(raw_tx.meta)) <= DUST => FungibleActionsOf(actions.value, "native") = {}
        /\ \A p \in DeltaSet(raw_tx, chain) :
               Abs(p[2]) > DUST =>
                   \/ HasType(actions.value, "swap")
                   \/ \E i \in FungibleActionsOf(actions.value, ExternalAddress(p[1], NATIVE_KEY_SOL)) :
                          /\ actions.value[i].type = "transfer"
                          /\ \E t \in {actions.value[i].token_in, actions.value[i].token_out} :
                                 t # NoneObj /\ t.amount = FloatStr(Abs(p[2]))

\* a native gain of 1e-5 returned as a transfer beside a token gain of 1e-6
\* that is in no action
C15_Witness ==
    /\ SolClassified
    /\ SolDelta(raw_tx.meta) = 10 * DUST
    /\ \E p \in RawDeltaSet(raw_tx) : p[1] = MINT_B /\ p[2] = DUST
    /\ FungibleActionsOf(actions.value, MINT_B) = {}
    /\ \E i \in FungibleActionsOf(actions.value, "native") :
           actions.value[i].token_out # NoneObj /\ actions.value[i].token_out.amount = "1e-05"

\* the acting account's native balance fell by the fee and nothing else of its
\* balances changed
OnlyFeePaid(raw) ==
    /\ raw.meta.preBalances # <<>>
    /\ raw.meta.postBalances # <<>>
    /\ raw.meta.fee > 0
    /\ raw.meta.postBalances[1] = raw.meta.preBalances[1] - raw.meta.fee
    /\ \A p \in RawDeltaSet(raw) : p[2] = 0

(* C16: the native delta is (postBalances[0] - preBalances[0] + fee) / 1e9: *)
(* a native-only change beyond dust is returned as one transfer of that     *)
(* amount, and a transaction that only pays the fee yields no transfer and  *)
(* no swap, only the fallback contract_call carrying the protocol.          *)
C16_FeeAddedBack ==
    SolClassified =>
        /\ OnlyFeePaid(raw_tx) =>
               actions.value = <<[Action("contract_call") EXCEPT
                                     !.protocol = _identify_protocol_sol(raw_tx)]>>
        /\ /\ raw_tx.meta.preBalances # <<>>
           /\ raw_tx.meta.postBalances # <<>>
           /\ RawDeltaSet(raw_tx) = {}
           /\ Abs(raw_tx.meta.postBalances[1] - raw_tx.meta.preBalances[1] + raw_tx.meta.fee) > DUST
           => /\ Len(actions.value) = 1
              /\ actions.value[1].type = "transfer"
              /\ \E t \in {actions.value[1].token_in, actions.value[1].token_out} :
                     /\ t # NoneObj
                     /\ t.address = "native"
                     /\ t.amount = FloatStr(Abs(raw_tx.meta.postBalances[1]
                                                 - raw_tx.meta.preBalances[1] + raw_tx.meta.fee))

\* a fee-only transaction naming a known program, with a token account of
\* another owner
C16_Witness ==
    /\ SolClassified
    /\ OnlyFeePaid(raw_tx)
    /\ raw_tx.meta.postTokenBalances # <<>>
    /\ Len(actions.value) = 1
    /\ actions.value[1].protocol = "Jupiter"

(***************************************************************************)
(* A TransactionCache under get, set, clear and the passing of time        *)
(***************************************************************************)
MaxCapacity == 2

MaxOps == 4

\* the (chain, tx_hash) pairs the callers ask for: the same hash on both chains
CachePairs == {<<"base", "0xaa">>, <<"base", "0xbb">>, <<"solana", "0xaa">>}

CacheKeys == {_key(p[1], p[2]) : p \in CachePairs}

\* the calls of set the callers make: a base transaction found pending and
\* then confirmed, one not found and then confirmed (also with a short ttl),
\* a solana transaction found confirmed
CacheSets ==
    { [chain |-> "base", tx_hash |-> "0xaa", ttl |-> NoneInt,
       data |-> NormalizedTransaction("base", "0xaa", "pending")],
      [chain |-> "base", tx_hash |-> "0xaa", ttl |-> NoneInt,
       data |-> NormalizedTransaction("base", "0xaa", "confirmed")],
      [chain |-> "base", tx_hash |-> "0xbb", ttl |-> NoneInt, data |-> NoneObj],
      [chain |-> "base", tx_hash |-> "0xbb", ttl |-> 1,
       data |-> NormalizedTransaction("base", "0xbb", "confirmed")],
      [chain |-> "solana", tx_hash |-> "0xaa", ttl |-> NoneInt,
       data |-> NormalizedTransaction("solana", "0xaa", "confirmed")] }

ClassifierIdle ==
    /\ chain = ""
    /\ raw_tx = NoneObj
    /\ pc = "idle"
    /\ actions = NoCall
    /\ again = NoCall
    /\ normalized = NoCall

InitCache ==
    /\ ClassifierIdle
    /\ \E max_entries \in 1..MaxCapacity : tx_cache = TransactionCache(max_entries)
    /\ now = 0
    /\ ops = 0
    /\ result = NoOperation
    /\ uses = <<>>
    /\ latest = [k \in CacheKeys |-> NeverSet]
    /\ HttpIdle

\* key becomes the most recently used key
Used(history, key) == LET Other(k) == k # key IN Append(SelectSeq(history, Other), key)

\* tx_cache.set(chain, tx_hash, data, ttl)
CacheSet ==
    /\ ops < MaxOps
    /\ \E call \in CacheSets :
           LET key == _key(call.chain, call.tx_hash)
               data == call.data
               ttl == call.ttl
               after == set(tx_cache, now, call.chain, call.tx_hash, data, ttl)
           IN /\ tx_cache' = after
              /\ result' = [op |-> "set", key |-> key, value |-> data,
                            before |-> tx_cache._store, used |-> uses, at |-> now]
              /\ uses' = Used(uses, key)
              /\ latest' = [k \in CacheKeys |->
                               IF k = key
                               THEN [set |-> TRUE, data |-> data, at |-> now,
                                     ttl |-> EntryTtl(data, ttl), pushed_out |-> FALSE]
                               ELSE IF /\ k \in StoreKeys(tx_cache._store)
                                       /\ k \notin StoreKeys(after._store)
                               THEN [latest[k] EXCEPT !.pushed_out = TRUE]
                               ELSE latest[k]]
    /\ ops' = ops + 1
    /\ UNCHANGED <<now, classifierVars, httpVars>>

\* tx_cache.get(chain, tx_hash)
CacheGet ==
    /\ ops < MaxOps
    /\ \E p \in CachePairs :
           LET key == _key(p[1], p[2])
               got == get(tx_cache, now, p[1], p[2])
           IN /\ tx_cache' = got.cache
              /\ result' = [op |-> "get", key |-> key, value |-> got.value,
                            before |-> tx_cache._store, used |-> uses, at |-> now]
              /\ uses' = IF got.value = CACHE_MISS THEN uses ELSE Used(uses, key)
    /\ ops' = ops + 1
    /\ UNCHANGED <<now, latest, classifierVars, httpVars>>

\* tx_cache.clear()
CacheClear ==
    /\ ops < MaxOps
    /\ tx_cache._store # <<>>
    /\ tx_cache' = clear(tx_cache)
    /\ result' = [op |-> "clear", key |-> None, value |-> NoneObj,
                  before |-> tx_cache._store, used |-> uses, at |-> now]
    /\ latest' = [k \in CacheKeys |->
                     IF k \in StoreKeys(tx_cache._store)
                     THEN [latest[k] EXCEPT !.pushed_out = TRUE] ELSE latest[k]]
    /\ ops' = ops + 1
    /\ UNCHANGED <<now, uses, classifierVars, httpVars>>

\* time passes until the expiry instant of a stored entry, or one second beyond
CacheTick ==
    /\ \E i \in 1..Len(tx_cache._store) : \E late \in {0, 1} :
           /\ tx_cache._store[i][2].expires_at + late > now
           /\ now' = tx_cache._store[i][2].expires_at + late
    /\ UNCHANGED <<tx_cache, ops, result, uses, latest, classifierVars, httpVars>>

NextCache == CacheSet \/ CacheGet \/ CacheClear \/ CacheTick

SpecCache == InitCache /\ [][NextCache]_vars

\* the stored keys other than key, least recently used first
StoredByUse(store, history, key) ==
    LET Stored(k) == k # key /\ k \in StoreKeys(store) IN SelectSeq(history, Stored)

\* the keys a set found in the store and did not leave there
PushedOut == (StoreKeys(result.before) \ {result.key}) \ StoreKeys(tx_cache._store)

(* C17: the store never holds more than max_entries entries; a set that     *)
(* would leave one entry too many pushes out exactly the least recently     *)
(* used of the other keys, a use being a set or a served get; a set that    *)
(* fits pushes nothing out.                                                 *)
C17_BoundedAndEvictsLeastRecentlyUsed ==
    /\ Len(tx_cache._store) <= tx_cache._max_entries
    /\ result.op = "set" =>
           LET others == StoredByUse(result.before, result.used, result.key)
           IN /\ result.key \in StoreKeys(tx_cache._store) \/ tx_cache._max_entries = 0
              /\ IF Len(others) + 1 > tx_cache._max_entries
                 THEN PushedOut = {others[1]}
                 ELSE PushedOut = {}

\* a set pushed out a key although a key set before it stayed: the older key
\* had been served by a get in between
C17_Witness ==
    /\ result.op = "set"
    /\ \E k \in PushedOut : \E j \in StoreKeys(tx_cache._store) \ {result.key} :
           latest[j].at < latest[k].at

\* the latest set of the key of the last get, its entry not pushed out since
LiveSet == latest[result.key].set /\ ~latest[result.key].pushed_out

(* C18: a get whose key was set, the entry not pushed out by a later set or *)
(* a clear, returns the data of the latest set of that key as long as the   *)
(* clock has not passed the instant of that set plus its ttl, a cached None *)
(* being returned as None and not as CACHE_MISS; once the clock has passed  *)
(* that instant the get returns CACHE_MISS and the key is no longer stored. *)
(* A get of a key without such a set returns CACHE_MISS.                    *)
C18_GetServesLatestSetUntilExpiry ==
    result.op = "get" =>
        IF ~LiveSet THEN result.value = CACHE_MISS
        ELSE IF result.at <= latest[result.key].at + latest[result.key].ttl
        THEN /\ result.value = latest[result.key].data
             /\ result.value # CACHE_MISS
             /\ result.key \in StoreKeys(tx_cache._store)
        ELSE /\ result.value = CACHE_MISS
             /\ result.key \notin StoreKeys(tx_cache._store)

\* a cached None served some time after it was set, and an expired entry
\* of another key still awaiting its removal
C18_Witness ==
    /\ result.op = "get"
    /\ LiveSet
    /\ result.value = NoneObj
    /\ result.at > latest[result.key].at
    /\ \E i \in 1..Len(tx_cache._store) : tx_cache._store[i][2].expires_at < result.at

(***************************************************************************)
(* app/main.py: POST /v1/receipt/{chain} (generate_receipt), for requests  *)
(* that pass validate_chain and validate_tx_hash, all for one (chain,      *)
(* tx_hash) and served one at a time.                                      *)
(* The handler runs up to an await in one step: an action per stretch of   *)
(* code between the awaits of fetch_transaction and render_receipt_card.   *)
(***************************************************************************)
MaxRequests == 2

BASE_HASH == "0x" \o Rep("ab", 32)

SOLANA_SIGNATURE == Rep("5", 88)

HttpPairs == {<<"base", BASE_HASH>>, <<"solana", SOLANA_SIGNATURE>>}

Formats == {"json", "svg", "png"}

Templates == {"classic"}

SummaryNames == {_summary_key(p[1], p[2]) : p \in HttpPairs}

NegativeNames == {_negative_key(p[1], p[2]) : p \in HttpPairs}

ImageNames == {_image_key(p[1], p[2], template) : p \in HttpPairs, template \in Templates}

FileNames == SummaryNames \cup NegativeNames \cup ImageNames

InitHttp ==
    /\ ClassifierIdle
    /\ CacheIdle
    /\ files = [name \in FileNames |-> NoFile]
    /\ \E asked \in HttpPairs : ledger = [p \in {asked} |-> "unknown"]
    /\ request = NoRequest
    /\ answers = <<>>

\* the handler has answered: the directory and cache it leaves, its status
\* code and, for a JSON body, card.cached
Answered(fs, cache, status_code, cached) ==
    [pc |-> "done", files |-> fs, tx_cache |-> cache, status_code |-> status_code,
     cached |-> cached, tx_data |-> NoneObj]

\* the handler waits at an await
Awaiting(fs, cache, where, tx_data) ==
    [pc |-> where, files |-> fs, tx_cache |-> cache, status_code |-> 0,
     cached |-> FALSE, tx_data |-> tx_data]

\* main.py 160-177: from the transaction data to the await of the renderer
AfterLookup(fs, cache, t, chain_tag, tx_hash, tx_data) ==
    IF tx_data = NoneObj
    THEN Answered(set_negative(fs, t, chain_tag, tx_hash, "not_found"), cache, 404, FALSE)
    ELSE IF tx_data.status = "pending"
    THEN Answered(set_negative(fs, t, chain_tag, tx_hash, "pending"), cache, 202, FALSE)
    ELSE Awaiting(fs, cache, "render", tx_data)

\* main.py 132-158: from the validated request to the await of the fetcher;
\* a cached image or summary is never empty, so it is truthy when not None
BeforeFetch(fs, cache, t, chain_tag, tx_hash, format, template) ==
    LET cached_image == IF format = "png" THEN get_image(fs, t, chain_tag, tx_hash, template)
                        ELSE [value |-> NoneObj, files |-> fs]
        cached_summary == IF format = "json"
                          THEN get_summary(cached_image.files, t, chain_tag, tx_hash)
                          ELSE [value |-> NoneObj, files |-> cached_image.files]
        neg == get_negative(cached_summary.files, t, chain_tag, tx_hash)
        tx_data == get(cache, t, chain_tag, tx_hash)
    IN IF cached_image.value # NoneObj THEN Answered(cached_image.files, cache, 200, FALSE)
       ELSE IF cached_summary.value # NoneObj
       THEN Answered(cached_summary.files, cache, 200, TRUE)
       ELSE IF neg.value = "pending" THEN Answered(neg.files, cache, 202, FALSE)
       ELSE IF neg.value = "not_found" THEN Answered(neg.files, cache, 404, FALSE)
       ELSE IF tx_data.value = CACHE_MISS
       THEN Awaiting(neg.files, tx_data.cache, "fetch", NoneObj)
       ELSE AfterLookup(neg.files, tx_data.cache, t, chain_tag, tx_hash, tx_data.value)

\* main.py 155-177: fetch_transaction has come back
AfterFetch(fs, cache, t, chain_tag, tx_hash, fetched) ==
    IF fetched.raised THEN Answered(fs, cache, fetched.status_code, FALSE)
    ELSE AfterLookup(fs, set(cache, t, chain_tag, tx_hash, fetched.value, NoneInt),
                     t, chain_tag, tx_hash, fetched.value)

\* main.py 177-189: render_receipt_card has come back with card and summary
AfterRender(fs, cache, t, chain_tag, tx_hash, format, template, tx_data) ==
    LET summary == build_summary(tx_data)
        with_summary == set_summary(fs, t, chain_tag, tx_hash, summary)
    IN Answered(IF format = "png"
                THEN set_image(with_summary, t, chain_tag, tx_hash, template,
                               CardImage(tx_data, template))
                ELSE with_summary,
                cache, 200, FALSE)

\* the state a stretch of the handler leaves
Leaves(step, req) ==
    /\ files' = step.files
    /\ tx_cache' = step.tx_cache
    /\ IF step.pc = "done"
       THEN /\ request' = NoRequest
            /\ answers' = Append(answers, [chain |-> req.chain, tx_hash |-> req.tx_hash,
                                   format |-> req.format, status_code |-> step.status_code,
                                   cached |-> step.cached, fetched |-> req.fetched,
                                   rendered |-> req.pc = "render",
                                   began |-> req.began, at |-> now])
       ELSE /\ request' = [req EXCEPT !.pc = step.pc, !.tx_data = step.tx_data]
            /\ answers' = answers

\* a request arrives and is served up to its answer or its first await
ReceiveRequest ==
    /\ request = NoRequest
    /\ Len(answers) < MaxRequests
    /\ \E p \in DOMAIN ledger : \E format \in Formats : \E template \in Templates :
           Leaves(BeforeFetch(files, tx_cache, now, p[1], p[2], format, template),
                  [pc |-> "begin", chain |-> p[1], tx_hash |-> p[2], format |-> format,
                   template |-> template, tx_data |-> NoneObj, fetched |-> FALSE,
                   began |-> now])
    /\ UNCHANGED <<now, ops, result, uses, latest, ledger, classifierVars>>

\* fetch_transaction comes back with what the provider answers now, or
\* with a timeout
FetchReturns ==
    /\ request.pc = "fetch"
    /\ \E answer \in {ledger[<<request.chain, request.tx_hash>>], "timeout"} :
           Leaves(AfterFetch(files, tx_cache, now, request.chain, request.tx_hash,
                             fetch_transaction(answer, request.chain, request.tx_hash)),
                  [request EXCEPT !.fetched = TRUE])
    /\ UNCHANGED <<now, ops, result, uses, latest, ledger, classifierVars>>

\* render_receipt_card comes back with the card and the summary
RenderReturns ==
    /\ request.pc = "render"
    /\ Leaves(AfterRender(files, tx_cache, now, request.chain, request.tx_hash,
                          request.format, request.template, request.tx_data),
              request)
    /\ UNCHANGED <<now, ops, result, uses, latest, ledger, classifierVars>>

\* the provider learns of a transaction, or of its receipt
ProviderAdvances ==
    /\ \E p \in DOMAIN ledger :
           \/ /\ ledger[p] = "unknown"
              /\ p[1] = "base"
              /\ ledger' = [ledger EXCEPT ![p] = "pending"]
           \/ /\ ledger[p] \in {"unknown", "pending"}
              /\ ledger' = [ledger EXCEPT ![p] = "confirmed"]
    /\ UNCHANGED <<cacheVars, files, request, answers, classifierVars>>

\* the ttl get_image, get_summary and get_negative apply to a file
FileTtl(name) ==
    IF name \in NegativeNames
    THEN IF files[name].content = "pending" THEN FileCache_PENDING_TTL
         ELSE FileCache_NOT_FOUND_TTL
    ELSE CONFIRMED_TTL

\* the instants at which a cached file or a memory-cache entry expires
ExpiryInstants ==
    {tx_cache._store[i][2].expires_at : i \in 1..Len(tx_cache._store)}
        \cup {files[name].mtime + FileTtl(name) : name \in {n \in FileNames : files[n].exists}}

\* time passes until an expiry instant, or one second beyond
HttpTick ==
    /\ \E instant \in ExpiryInstants : \E late \in {0, 1} :
           /\ instant + late > now
           /\ now' = instant + late
    /\ UNCHANGED <<tx_cache, ops, result, uses, latest, httpVars, classifierVars>>

NextHttp == ReceiveRequest \/ FetchReturns \/ RenderReturns \/ ProviderAdvances \/ HttpTick

SpecHttp == InitHttp /\ [][NextHttp]_vars

\* answer j is to a request for the chain and hash of answer i, received
\* after answer i was given
LaterSame(i, j) ==
    /\ i < j
    /\ answers[j].chain = answers[i].chain
    /\ answers[j].tx_hash = answers[i].tx_hash
    /\ answers[j].began >= answers[i].at

(* C19, as stated: after a 404 answer, a request for the same chain and    *)
(* hash received before the not-found ttl of 30 seconds has elapsed is      *)
(* answered 404 without a call of the fetcher.                              *)
C19_NotFoundServedFromNegativeCache ==
    \A i, j \in 1..Len(answers) :
        /\ LaterSame(i, j)
        /\ answers[i].status_code = 404
        /\ answers[j].began - answers[i].at < FileCache_NOT_FOUND_TTL
        => /\ answers[j].status_code = 404
           /\ ~answers[j].fetched

IsDigits(s) == s # "" /\ \A i \in 1..Len(s) : \E d \in 1..10 : Digits[d] = CharAt(s, i)

RECURSIVE DecimalValue(_)
DecimalValue(s) ==
    IF s = "" THEN 0
    ELSE 10 * DecimalValue(SubSeq(s, 1, Len(s) - 1))
         + (CHOOSE d \in 1..10 : Digits[d] = CharAt(s, Len(s))) - 1

\* where the decimal point of s stands, 0 when s is no digits.digits
PointAt(s) ==
    LET Splits(i) == /\ CharAt(s, i) = "."
                     /\ IsDigits(SubSeq(s, 1, i - 1))
                     /\ IsDigits(SubSeq(s, i + 1, Len(s)))
    IN IF \E i \in 2..(Len(s) - 1) : Splits(i)
       THEN CHOOSE i \in 2..(Len(s) - 1) : Splits(i)
       ELSE 0

\* float(s) of an amount string in positional notation, as str(int) and
\* str(float) write it: the value is num / 10^scale; anything else raises
\* ValueError
float(s) ==
    IF IsDigits(s) THEN [raised |-> FALSE, num |-> DecimalValue(s), scale |-> 0]
    ELSE IF PointAt(s) # 0
    THEN [raised |-> FALSE,
          num |-> DecimalValue(SubSeq(s, 1, PointAt(s) - 1) \o SubSeq(s, PointAt(s) + 1, Len(s))),
          scale |-> Len(s) - PointAt(s)]
    ELSE [raised |-> TRUE, num |-> 0, scale |-> 0]

\* str(x) of the float x = num / 10^scale > 0: the shortest repr, in exponent
\* notation when the decimal point falls more than 3 zeros left of the digits
\* or more than 16 digits right of the first
FloatRepr(num, scale) ==
    LET z == TrailingZeros(num)
        digits == IntStr(num \div Pow10(z))
        k == Len(digits)
        decpt == k + z - scale
        mantissa == IF k = 1 THEN digits
                    ELSE SubSeq(digits, 1, 1) \o "." \o SubSeq(digits, 2, k)
        TwoDigits(e) == (IF e < 10 THEN "0" ELSE "") \o IntStr(e)
    IN IF decpt <= -4 THEN mantissa \o "e-" \o TwoDigits(1 - decpt)
       ELSE IF decpt > 16 THEN mantissa \o "e+" \o TwoDigits(decpt - 1)
       ELSE IF decpt <= 0 THEN "0." \o Rep("0", -decpt) \o digits
       ELSE IF decpt >= k THEN digits \o Rep("0", decpt - k) \o ".0"
       ELSE SubSeq(digits, 1, decpt) \o "." \o SubSeq(digits, decpt + 1, k)

\* one side of _apply_decimals: a token with truthy decimals whose amount
\* parses to more than 1e6 is divided by 10 ** decimals
ConvertAmount(token) ==
    IF token = NoneObj THEN token
    ELSE IF token.decimals = 0 THEN token
    ELSE LET raw == float(token.amount)
         IN IF raw.raised THEN token
            ELSE IF raw.num > 1000000 * Pow10(raw.scale)
            THEN [token EXCEPT !.amount = FloatRepr(raw.num, raw.scale + token.decimals)]
            ELSE token

_apply_decimals(action) ==
    [action EXCEPT !.token_in = ConvertAmount(@), !.token_out = ConvertAmount(@)]

RenderAmounts ==
    {"1", "500000", "1000000", "1000001", "2000000", "2000000.0", "1.5", "abc"}

RenderDecimals == {0, 5, 6, 18}

RenderTokens ==
    {TokenInfo(TOKEN_A, "USDC", amount, decimals) :
        amount \in RenderAmounts, decimals \in RenderDecimals}

\* one classified action of a transaction on either chain reaches the pass
InitRender ==
    /\ chain \in {"base", "solana"}
    /\ raw_tx = NoneObj
    /\ pc = "input"
    /\ \E token_in, token_out \in RenderTokens \cup {NoneObj} :
           actions = Return(<<[Action("swap") EXCEPT !.token_in = token_in,
                                                     !.token_out = token_out]>>)
    /\ again = NoCall
    /\ normalized = NoCall
    /\ ServiceIdle

\* the loop of render_receipt_card over the actions
CallApplyDecimals ==
    /\ pc = "input"
    /\ normalized' = Return([i \in 1..Len(actions.value) |-> _apply_decimals(actions.value[i])])
    /\ pc' = "rendered"
    /\ UNCHANGED <<chain, raw_tx, actions, again>>
    /\ UNCHANGED serviceVars

NextRender == CallApplyDecimals

SpecRender == InitRender /\ [][NextRender]_vars

(* C21, as stated: the decimals pass converts per chain. On base every raw *)
(* integer amount of a token with non-zero decimals is divided by           *)
(* 10^decimals, an amount with decimals = 0 is left unchanged, and on       *)
(* solana no amount is changed.                                             *)
C21_DecimalsPassConvertsPerChain ==
    pc = "rendered" =>
        \A i \in 1..Len(actions.value) : \A side \in {"token_in", "token_out"} :
            LET before == actions.value[i][side]
                after == normalized.value[i][side]
            IN before # NoneObj =>
                   /\ chain = "base" /\ IsDigits(before.amount) /\ before.decimals # 0
                      => after.amount = FloatRepr(DecimalValue(before.amount), before.decimals)
                   /\ before.decimals = 0 => after.amount = before.amount
                   /\ chain = "solana" => after.amount = before.amount

(***************************************************************************)
(* The deltas of classify_evm_actions, read off the receipt's logs          *)
(***************************************************************************)
\* the sum of the data words of the logs at the counted positions
RECURSIVE SumAmounts(_, _)
SumAmounts(logs, counted) ==
    IF counted = {} THEN 0
    ELSE LET i == CHOOSE x \in counted : TRUE
         IN _hex_to_int(Get(logs[i].data, "0x")) + SumAmounts(logs, counted \ {i})

LogSignature(log) ==
    IF Len(log.topics) > 0 /\ Truthy(log.topics[1]) THEN Lower(log.topics[1]) ELSE ""

LogContract(log) == Lower(Or(log.address, ""))

\* a Deposit or Withdrawal event of a wrapped-native contract made by the account
IsWethEvent(log, signature, account) ==
    /\ Len(log.topics) >= 2
    /\ LogContract(log) \in WETH_ADDRESSES
    /\ LogSignature(log) = signature
    /\ _decode_address(log.topics[2]) = account

\* an ERC-20 Transfer log (three topics) of the contract
IsErc20Transfer(log, contract) ==
    /\ Len(log.topics) = 3
    /\ LogSignature(log) = ERC20_TRANSFER
    /\ LogContract(log) = contract

\* received minus sent by the account in the contract's ERC-20 Transfer logs
NetTransferred(logs, contract, account) ==
    LET Received(log) == IsErc20Transfer(log, contract) /\ _decode_address(log.topics[3]) = account
        Sent(log) == IsErc20Transfer(log, contract) /\ _decode_address(log.topics[2]) = account
    IN SumAmounts(logs, {i \in 1..Len(logs) : Received(logs[i])})
       - SumAmounts(logs, {i \in 1..Len(logs) : Sent(logs[i])})

RECURSIVE NetTransferredOver(_, _, _)
NetTransferredOver(logs, contracts, account) ==
    IF contracts = {} THEN 0
    ELSE LET c == CHOOSE x \in contracts : TRUE
         IN NetTransferred(logs, c, account) + NetTransferredOver(logs, contracts \ {c}, account)

\* -value + withdrawals - deposits + net Transfer delta on the wrapped token
NativeDeltaOfLogs(raw) ==
    LET logs == raw.receipt.logs
        user == EvmUser(raw)
        Withdrew(log) == IsWethEvent(log, WETH_WITHDRAWAL, user)
        Deposited(log) == IsWethEvent(log, WETH_DEPOSIT, user)
    IN -EvmNativeSent(raw)
       + SumAmounts(logs, {i \in 1..Len(logs) : Withdrew(logs[i])})
       - SumAmounts(logs, {i \in 1..Len(logs) : Deposited(logs[i])})
       + NetTransferredOver(logs, WETH_ADDRESSES, user)

\* a base call that reached the delta analysis and returned a list
EvmClassified == Classified /\ chain = "base" /\ EvmAnalysed(raw_tx)

FungibleActions(list) == SelectSeq(list, IsFungible)

(* C22: the native delta is -value, plus the acting account's Withdrawals   *)
(* and minus its Deposits on the wrapped-native contract, plus its net      *)
(* ERC-20 Transfer delta on that contract. After the fold no swap or        *)
(* transfer carries the wrapped-native address or the internal native key,  *)
(* and a native delta that is reported is reported under address "native":  *)
(* every transfer list holds exactly one transfer for a non-zero native     *)
(* delta, with its magnitude, and none for a zero one.                      *)
C22_NativeDeltaFoldsWrapped ==
    EvmClassified =>
        LET native_delta == NativeDeltaOfLogs(raw_tx)
            fungible == FungibleActions(actions.value)
            Native(a) == "native" \in TokenAddresses(a)
        IN /\ DictGet(EvmDeltas(raw_tx), NATIVE_KEY_EVM, 0) = native_delta
           /\ \A k \in WETH_ADDRESSES : ~DictHas(EvmDeltas(raw_tx), k)
           /\ \A i \in 1..Len(fungible) :
                  TokenAddresses(fungible[i]) \cap (WETH_ADDRESSES \cup {NATIVE_KEY_EVM}) = {}
           /\ native_delta = 0 => \A i \in 1..Len(fungible) : ~Native(fungible[i])
           /\ native_delta # 0 /\ ~HasType(fungible, "swap") =>
                  /\ Len(SelectSeq(fungible, Native)) = 1
                  /\ LET a == SelectSeq(fungible, Native)[1]
                         token == IF native_delta < 0 THEN a.token_in ELSE a.token_out
                     IN token # NoneObj /\ token.amount = IntStr(Abs(native_delta))

\* value 2 was sent, the account deposited 1 and received 1 of the wrapped
\* token: one transfer of 2 native out
C22_Witness ==
    /\ EvmClassified
    /\ EvmNativeSent(raw_tx) = 2
    /\ LogCount(raw_tx, DepositLog) = 1
    /\ LogCount(raw_tx, TransferLog(WETH, OTHER_ADDRESS, USER, "0x1")) = 1
    /\ NativeDeltaOfLogs(raw_tx) = -2
    /\ Len(actions.value) = 1
    /\ actions.value[1].type = "transfer"
    /\ actions.value[1].token_in = TokenInfo("native", "Unknown", "2", 18)

(***************************************************************************)
(* classify_evm_actions on receipts whose logs touch, miss and cancel the   *)
(* acting account's balances                                                *)
(***************************************************************************)
NftShapedLog(contract, from_addr, to_addr, token_id) ==
    Log(contract,
        <<ERC721_TRANSFER, _pad_address(from_addr), _pad_address(to_addr),
          "0x" \o Rep("0", 63) \o token_id>>,
        "0x")

ApprovalLog(contract, owner, spender) ==
    Log(contract, <<APPROVAL, _pad_address(owner), _pad_address(spender)>>, "0x")

ReceiptLogs ==
    { TransferLog(TOKEN_A, USER, OTHER_ADDRESS, "0x3"),
      TransferLog(TOKEN_A, OTHER_ADDRESS, USER, "0x3"),
      TransferLog(TOKEN_B, USER, OTHER_ADDRESS, "0x3"),
      TransferLog(TOKEN_B, OTHER_ADDRESS, USER, "0x1"),
      TransferLog(TOKEN_B, USER, USER, "0x2"),
      TransferLog(TOKEN_A, OTHER_ADDRESS, ROUTER, "0x5"),
      NftShapedLog(TOKEN_A, OTHER_ADDRESS, USER, "5"),
      ApprovalLog(TOKEN_A, USER, ROUTER),
      ApprovalLog(TOKEN_B, USER, OTHER_ADDRESS),
      ApprovalLog(TOKEN_A, OTHER_ADDRESS, ROUTER),
      DepositLog }

\* calls without logs: one sending no value, one sending 2
ReceiptBundles ==
    { EvmBundle(Transaction(USER, ROUTER, "0x0", "0x"), Receipt(USER, ROUTER, None)),
      EvmBundle(Transaction(USER, OTHER_ADDRESS, "0x2", "0x"), Receipt(USER, OTHER_ADDRESS, None)) }

InitLogs ==
    /\ chain = "base"
    /\ raw_tx \in ReceiptBundles
    /\ InitCommon

AppendReceiptLog ==
    /\ pc = "input"
    /\ Len(raw_tx.receipt.logs) < MaxLogs
    /\ \E log \in ReceiptLogs :
           raw_tx' = [raw_tx EXCEPT !.receipt.logs = Append(@, log)]
    /\ UNCHANGED <<chain, pc, actions, again, normalized>>
    /\ UNCHANGED serviceVars

\* the logs in the order order[1], order[2], ...
Reordered(raw, order) ==
    [raw EXCEPT !.receipt.logs = [i \in 1..Len(order) |-> raw.receipt.logs[order[i]]]]

Orders(n) == {order \in [1..n -> 1..n] : \A i, j \in 1..n : order[i] = order[j] => i = j}

\* classify_evm_actions on the same bundle with its logs in another order;
\* the result is kept together with the order the logs were given in
CallReordered ==
    /\ pc = "classified"
    /\ \E order \in Orders(Len(raw_tx.receipt.logs)) :
           LET returned == classify_evm_actions(Reordered(raw_tx, order))
           IN again' = [raised |-> returned.raised, value |-> returned.value, order |-> order]
    /\ pc' = "reclassified"
    /\ UNCHANGED <<chain, raw_tx, actions, normalized>>
    /\ UNCHANGED serviceVars

NextLogs == AppendReceiptLog \/ CallClassifier \/ CallReordered

SpecLogs == InitLogs /\ [][NextLogs]_vars

LogContracts(raw) == {LogContract(raw.receipt.logs[i]) : i \in 1..Len(raw.receipt.logs)}

(* C23: for every token contract other than the wrapped-native address the *)
(* net delta is the sum of the amounts of its 3-topic Transfer logs to the  *)
(* acting account minus the sum of those from it. Nothing else enters the   *)
(* map: Transfer logs between other accounts, 4-topic Transfer logs and    *)
(* Approval logs change no token delta. An asset whose net delta is zero    *)
(* is named by no swap or transfer.                                         *)
C23_TokenDeltaIsNetOfTransfers ==
    EvmClassified =>
        LET logs == raw_tx.receipt.logs
            user == EvmUser(raw_tx)
            deltas == EvmDeltas(raw_tx)
            fungible == FungibleActions(actions.value)
        IN /\ \A contract \in LogContracts(raw_tx) \ WETH_ADDRESSES :
                  /\ DictGet(deltas, contract, 0) = NetTransferred(logs, contract, user)
                  /\ NetTransferred(logs, contract, user) = 0 =>
                         \A i \in 1..Len(fungible) : contract \notin TokenAddresses(fungible[i])
           /\ \A i \in 1..Len(deltas) :
                  deltas[i][1] \in (LogContracts(raw_tx) \ WETH_ADDRESSES) \cup {NATIVE_KEY_EVM}

\* a self-transfer of TOKEN_B and, on TOKEN_A, a 4-topic Transfer to the
\* account or a Transfer between others: TOKEN_B is in the map with delta 0,
\* TOKEN_A is not, and no swap or transfer is returned
C23_Witness ==
    /\ EvmClassified
    /\ Len(raw_tx.receipt.logs) = 2
    /\ raw_tx.receipt.logs[1] = TransferLog(TOKEN_B, USER, USER, "0x2")
    /\ raw_tx.receipt.logs[2] \in {TransferLog(TOKEN_A, OTHER_ADDRESS, ROUTER, "0x5"),
                                  NftShapedLog(TOKEN_A, OTHER_ADDRESS, USER, "5")}
    /\ EvmNativeSent(raw_tx) = 0
    /\ EvmDeltas(raw_tx) = <<<<TOKEN_B, 0>>>>
    /\ FungibleActions(actions.value) = <<>>

\* the `to` of the transaction, else that of the receipt, else ""
NominalRecipient(raw) ==
    IF Truthy(raw.transaction.to) THEN raw.transaction.to
    ELSE IF Truthy(raw.receipt.to) THEN raw.receipt.to
    ELSE ""

Losses(raw) == {p \in DeltaSet(raw, "base") : p[2] < 0}

Gains(raw) == {p \in DeltaSet(raw, "base") : p[2] > 0}

(* C24: when the folded map holds losses and no gain, the fungible actions *)
(* are exactly one transfer per lost asset, with token_in the asset and     *)
(* its amount |delta|, no token_out, from_ the acting account and `to` the  *)
(* transaction's recipient; when it holds gains and no loss, they are       *)
(* exactly one transfer per gained asset, with token_out the asset and its  *)
(* amount the delta, no token_in, and `to` the acting account.              *)
C24_OneTransferPerAsset ==
    EvmClassified =>
        LET fungible == FungibleActions(actions.value)
            user == EvmUser(raw_tx)
            Out(p, a) == /\ a.type = "transfer"
                         /\ a.token_in # NoneObj
                         /\ a.token_in.address = ExternalAddress(p[1], NATIVE_KEY_EVM)
                         /\ a.token_in.amount = IntStr(-p[2])
                         /\ a.token_out = NoneObj
                         /\ a.from_ = user
                         /\ a.to = NominalRecipient(raw_tx)
            In(p, a) == /\ a.type = "transfer"
                        /\ a.token_out # NoneObj
                        /\ a.token_out.address = ExternalAddress(p[1], NATIVE_KEY_EVM)
                        /\ a.token_out.amount = IntStr(p[2])
                        /\ a.token_in = NoneObj
                        /\ a.to = user
        IN /\ Losses(raw_tx) # {} /\ Gains(raw_tx) = {} =>
                  /\ Len(fungible) = Cardinality(Losses(raw_tx))
                  /\ \A p \in Losses(raw_tx) :
                         Cardinality({i \in 1..Len(fungible) : Out(p, fungible[i])}) = 1
           /\ Gains(raw_tx) # {} /\ Losses(raw_tx) = {} =>
                  /\ Len(fungible) = Cardinality(Gains(raw_tx))
                  /\ \A p \in Gains(raw_tx) :
                         Cardinality({i \in 1..Len(fungible) : In(p, fungible[i])}) = 1

\* two gained assets, a token and native (from a Transfer of the wrapped
\* token), returned as two inbound transfers
C24_Witness ==
    /\ EvmClassified
    /\ Losses(raw_tx) = {}
    /\ Gains(raw_tx) = {<<TOKEN_B, 2>>, <<NATIVE_KEY_EVM, 1>>}
    /\ Len(actions.value) = 2
    /\ actions.value[1].token_out = TokenInfo(TOKEN_B, "Unknown", "2", 18)
    /\ actions.value[2].token_out = TokenInfo("native", "Unknown", "1", 18)
    /\ actions.value[2].to = USER

\* an Approval log whose owner is the account
IsApprovalBy(log, account) ==
    /\ Len(log.topics) >= 3
    /\ LogSignature(log) = APPROVAL
    /\ _decode_address(log.topics[2]) = account

\* where an action stands in the returned list
Rank(a) ==
    IF IsFungible(a) THEN 1
    ELSE IF a.type = "nft_transfer" THEN 2
    ELSE IF a.type = "approve" THEN 3
    ELSE 4

(* C25: in every returned list the swap or transfers come first, then the  *)
(* nft_transfer actions, then the approve actions. The approve actions are  *)
(* one per Approval log whose owner is the acting account, in the order of  *)
(* the logs, each naming the log's contract and spender; when there is no   *)
(* fungible and no NFT action the list is the approvals alone.              *)
C25_FungibleThenNftThenApprovals ==
    EvmClassified =>
        LET list == actions.value
            user == EvmUser(raw_tx)
            ByUser(log) == IsApprovalBy(log, user)
            IsApprove(a) == a.type = "approve"
            approval_logs == SelectSeq(raw_tx.receipt.logs, ByUser)
            approvals == SelectSeq(list, IsApprove)
        IN /\ \A i, j \in 1..Len(list) : i < j => Rank(list[i]) <= Rank(list[j])
           /\ Len(approvals) = Len(approval_logs)
           /\ \A k \in 1..Len(approvals) :
                  /\ approvals[k].spender = _decode_address(approval_logs[k].topics[3])
                  /\ approvals[k].token_in.address = LogContract(approval_logs[k])
           /\ approvals # <<>> => \A i \in 1..Len(list) : Rank(list[i]) <= 3
           /\ /\ approvals # <<>>
              /\ \A i \in 1..Len(list) : Rank(list[i]) \notin {1, 2}
              => list = approvals

\* the approval is logged before the NFT transfer and value is sent: the
\* list is the native transfer, the nft_transfer, the approve
C25_Witness ==
    /\ EvmClassified
    /\ raw_tx.receipt.logs = <<ApprovalLog(TOKEN_B, USER, OTHER_ADDRESS),
                               NftShapedLog(TOKEN_A, OTHER_ADDRESS, USER, "5")>>
    /\ Len(actions.value) = 3
    /\ actions.value[1].type = "transfer"
    /\ actions.value[2].type = "nft_transfer"
    /\ actions.value[3].type = "approve"
    /\ actions.value[3].spender = OTHER_ADDRESS

(***************************************************************************)
(* classify_evm_actions on calls with input data of several lengths         *)
(***************************************************************************)
\* input data: none, empty, the multicall selector followed by 0, 135, 136
\* and 204 bytes of arguments, the selector in upper case, another selector
\* with an argument byte, and data shorter than a selector
CallInputs ==
    { Missing, "0x", MULTICALL_SELECTOR, MULTICALL_SELECTOR \o Rep("0", 271),
      MULTICALL_SELECTOR \o Rep("0", 273), MULTICALL_INPUT, "0xAC9650D8",
      "0xabcdef0012", "0xac96" }

CallBundles ==
    {EvmBundle(Transaction(USER, ROUTER, "0x0", input), Receipt(USER, ROUTER, None)) :
        input \in CallInputs}

\* a log that classifies nothing, an approval and a received transfer
CallLogs ==
    { TransferLog(TOKEN_A, OTHER_ADDRESS, ROUTER, "0x5"),
      ApprovalLog(TOKEN_A, USER, ROUTER),
      TransferLog(TOKEN_B, OTHER_ADDRESS, USER, "0x1") }

InitCall ==
    /\ chain = "base"
    /\ raw_tx \in CallBundles
    /\ InitCommon

AppendCallLog ==
    /\ pc = "input"
    /\ Len(raw_tx.receipt.logs) < MaxLogs
    /\ \E log \in CallLogs :
           raw_tx' = [raw_tx EXCEPT !.receipt.logs = Append(@, log)]
    /\ UNCHANGED <<chain, pc, actions, again, normalized>>
    /\ UNCHANGED serviceVars

NextCall == AppendCallLog \/ CallClassifier

SpecCall == InitCall /\ [][NextCall]_vars

(* C26: a call that is no contract creation returns a contract_call only   *)
(* when it produced no swap, transfer, nft_transfer or approve, and then    *)
(* the list is that one action. When the first 10 characters of the input   *)
(* are 0xac9650d8 its note is "Batch: ~N calls" with                        *)
(* N = max(1, floor(((len(input) - 10) / 2) / 68)); otherwise the note is   *)
(* "Function: " followed by the first 10 characters of the input (the whole *)
(* input when it is shorter).                                               *)
C26_FallbackContractCall ==
    EvmClassified =>
        LET list == actions.value
            input == Get(raw_tx.transaction.input, "0x")
            n == Len(input)
            selector == IF n >= 10 THEN SubSeq(input, 1, 10) ELSE input
        IN /\ HasType(list, "contract_call") <=> \A i \in 1..Len(list) : Rank(list[i]) = 4
           /\ HasType(list, "contract_call") =>
                  /\ Len(list) = 1
                  /\ IF selector = "0xac9650d8"
                     THEN list[1].note = "Batch: ~" \o IntStr(Max(1, (n - 10) \div 136)) \o " calls"
                     ELSE list[1].note = "Function: " \o selector

\* a multicall with 204 bytes of arguments whose only log is a transfer
\* between other accounts: one contract_call estimating 3 calls
C26_Witness ==
    /\ EvmClassified
    /\ raw_tx.transaction.input = MULTICALL_INPUT
    /\ raw_tx.receipt.logs = <<TransferLog(TOKEN_A, OTHER_ADDRESS, ROUTER, "0x5")>>
    /\ Len(actions.value) = 1
    /\ actions.value[1].type = "contract_call"
    /\ actions.value[1].note = "Batch: ~3 calls"

(***************************************************************************)
(* The deltas of classify_solana_actions, read off the token balances       *)
(***************************************************************************)
\* the owner an entry names, else the account key at its accountIndex
EntryOwner(entry, raw) ==
    IF Truthy(Get(entry.owner, "")) THEN entry.owner
    ELSE IF entry.accountIndex # NoneInt /\ entry.accountIndex < Len(AccountKeys(raw))
    THEN Pubkey(AccountKeys(raw)[entry.accountIndex + 1])
    ELSE ""

\* the entries of the acting account
OwnEntries(entries, raw) ==
    LET Own(entry) == EntryOwner(entry, raw) = _get_signer(raw)
    IN SelectSeq(entries, Own)

\* the uiAmount of the account index and mint in a snapshot, 0 when the
\* snapshot has no entry for them
Snapshot(entries, idx, mint) ==
    LET At(i) == GetInt(entries[i].accountIndex, 0) = idx /\ Get(entries[i].mint, "") = mint
    IN IF \E i \in 1..Len(entries) : At(i)
       THEN UiAmount(entries[CHOOSE i \in 1..Len(entries) :
                                At(i) /\ \A j \in (i + 1)..Len(entries) : ~At(j)])
       ELSE 0

RECURSIVE SumOverIndices(_, _, _, _)
SumOverIndices(pre, post, mint, indices) ==
    IF indices = {} THEN 0
    ELSE LET idx == CHOOSE x \in indices : TRUE
         IN Snapshot(post, idx, mint) - Snapshot(pre, idx, mint)
            + SumOverIndices(pre, post, mint, indices \ {idx})

EntryMints(entries) == {Get(entries[i].mint, "") : i \in 1..Len(entries)}

\* the sum over the acting account's indices of post - pre for the mint
MintDeltaOfBalances(raw, mint) ==
    LET pre == OwnEntries(raw.meta.preTokenBalances, raw)
        post == OwnEntries(raw.meta.postTokenBalances, raw)
        both == pre \o post
        indices == {GetInt(both[i].accountIndex, 0) :
                        i \in {j \in 1..Len(both) : Get(both[j].mint, "") = mint}}
    IN SumOverIndices(pre, post, mint, indices)

\* the bundle without the token balances of other owners
WithoutOthers(raw) ==
    [raw EXCEPT !.meta.preTokenBalances = OwnEntries(@, raw),
                !.meta.postTokenBalances = OwnEntries(@, raw)]

(* C27: for each mint the delta is the sum over account indices of post    *)
(* uiAmount minus pre uiAmount over the token-balance entries whose owner   *)
(* (the owner field, else accountKeys[accountIndex]) is the acting account, *)
(* a missing pre or post entry counting as 0. The map holds no mint of      *)
(* other owners only, and the call returns what it returns on the bundle    *)
(* with the entries of other owners removed.                                *)
C27_MintDeltaSumsOwnBalances ==
    SolClassified =>
        LET deltas == SolRawDeltas(raw_tx, <<MINT_N, MINT_B, MINT_C>>)
            meta == raw_tx.meta
        IN /\ \A mint \in EntryMints(meta.preTokenBalances \o meta.postTokenBalances) :
                  DictGet(deltas, mint, 0) = MintDeltaOfBalances(raw_tx, mint)
           /\ DictKeySet(deltas) =
                  EntryMints(OwnEntries(meta.preTokenBalances \o meta.postTokenBalances, raw_tx))
           /\ \E seed \in HashSeeds : actions = classify_solana_actions(WithoutOthers(raw_tx), seed)

\* the acting account holds MINT_B at two indices, one resolved through
\* accountKeys, and another owner's MINT_B account gains 0.5: the delta is
\* the sum of the two own accounts
C27_Witness ==
    /\ SolClassified
    /\ \E i \in 1..Len(raw_tx.meta.postTokenBalances) :
           raw_tx.meta.postTokenBalances[i].owner = OTHER_ACCOUNT
    /\ \E i \in 1..Len(raw_tx.meta.postTokenBalances) :
           /\ raw_tx.meta.postTokenBalances[i].owner = Missing
           /\ EntryOwner(raw_tx.meta.postTokenBalances[i], raw_tx) = _get_signer(raw_tx)
    /\ MintDeltaOfBalances(raw_tx, MINT_B) = 1000
    /\ DictGet(SolRawDeltas(raw_tx, <<MINT_N, MINT_B, MINT_C>>), MINT_B, 0) = 1000

(***************************************************************************)
(* classify_solana_actions on token accounts of mints without decimals      *)
(***************************************************************************)
\* token accounts of the signer: gains of 1.25 and of 1 and a loss of 0.75
\* and of 1 at decimals 0, a second gain of 1 on the same mint, a gain of 1
\* at 6 decimals, and a gain of 1e-6 on an account without owner field at
\* index 0; an account of another owner gaining 0.5
MintAccounts ==
    { TokenAccount(<<>>, <<TokenBalance(1, MINT_N, SIGNER, 1250000000, 0)>>),
      TokenAccount(<<TokenBalance(2, MINT_C, SIGNER, 750000000, 0)>>, <<>>),
      TokenAccount(<<>>, <<TokenBalance(1, MINT_B, SIGNER, NANO, 0)>>),
      TokenAccount(<<TokenBalance(2, MINT_B, SIGNER, NANO, 0)>>, <<>>),
      TokenAccount(<<>>, <<TokenBalance(3, MINT_B, SIGNER, NANO, 0)>>),
      TokenAccount(<<>>, <<TokenBalance(3, MINT_C, SIGNER, NANO, 6)>>),
      TokenAccount(<<TokenBalance(0, MINT_B, Missing, 1000, 0)>>,
                   <<TokenBalance(0, MINT_B, Missing, 2000, 0)>>),
      TokenAccount(<<TokenBalance(1, MINT_B, OTHER_ACCOUNT, 0, 0)>>,
                   <<TokenBalance(1, MINT_B, OTHER_ACCOUNT, 500000000, 0)>>) }

\* the signer pays the fee only, or also loses 0.001 native
MintBundles ==
    { SolanaBundle(<<StrKey(SIGNER)>>, <<>>, Meta(<<10000000>>, <<9995000>>, 5000)),
      SolanaBundle(<<StrKey(SIGNER)>>, <<>>, Meta(<<10000000>>, <<8995000>>, 5000)) }

InitMints ==
    /\ chain = "solana"
    /\ raw_tx \in MintBundles
    /\ InitCommon

AppendMintAccount ==
    /\ pc = "input"
    /\ Len(raw_tx.meta.preTokenBalances) < MaxTokenAccounts
    /\ Len(raw_tx.meta.postTokenBalances) < MaxTokenAccounts
    /\ \E account \in MintAccounts :
           raw_tx' = [raw_tx EXCEPT !.meta.preTokenBalances = @ \o account.pre,
                                    !.meta.postTokenBalances = @ \o account.post]
    /\ UNCHANGED <<chain, pc, actions, again, normalized>>
    /\ UNCHANGED serviceVars

NextMints == AppendMintAccount \/ CallClassifier

SpecMints == InitMints /\ [][NextMints]_vars

\* round(x) of x >= 0 given in 1e-9 units, for x not halfway between integers
Rounded(n) == (n + NANO \div 2) \div NANO

(* C28, as stated: a mint is treated as an NFT exactly when its decimals    *)
(* are 0 and the rounded absolute value of its net delta is 1; such a mint  *)
(* is in no swap or transfer, and its nft_transfer goes to the acting       *)
(* account for a gain and from it for a loss.                               *)
C28_NftIffRoundedUnitDelta ==
    SolClassified =>
        \A p \in RawDeltaSet(raw_tx) :
            LET nft == /\ DictGet(SolMintDecimals(raw_tx), p[1], 0) = 0
                       /\ Rounded(Abs(p[2])) = 1
            IN /\ nft <=> NftActionsOf(actions.value, p[1]) # {}
               /\ nft => /\ FungibleActionsOf(actions.value, p[1]) = {}
                         /\ \A i \in NftActionsOf(actions.value, p[1]) :
                                IF p[2] > 0
                                THEN actions.value[i].to = _get_signer(raw_tx)
                                ELSE actions.value[i].from_ = _get_signer(raw_tx)

\* the bundle was classified with its logs as given and in another order
Reclassified == pc = "reclassified" /\ chain = "base" /\ EvmAnalysed(raw_tx)

IsNftTransfer(a) == a.type = "nft_transfer"

IsApprove(a) == a.type = "approve"

\* the same actions, each as often, in any order
SameActions(s, t) ==
    /\ Len(s) = Len(t)
    /\ \A i \in 1..Len(s) :
           Cardinality({j \in 1..Len(s) : s[j] = s[i]}) = Cardinality({j \in 1..Len(t) : t[j] = s[i]})

(* C29, as stated: permuting the receipt logs changes neither the folded   *)
(* deltas nor the swap or transfers returned; only the nft_transfer and     *)
(* approve actions follow the order of the logs.                            *)
C29_OnlySideActionsFollowLogOrder ==
    Reclassified /\ ~actions.raised /\ ~again.raised =>
        /\ DeltaSet(Reordered(raw_tx, again.order), "base") = DeltaSet(raw_tx, "base")
        /\ FungibleActions(again.value) = FungibleActions(actions.value)
        /\ SameActions(SelectSeq(again.value, IsNftTransfer), SelectSeq(actions.value, IsNftTransfer))
        /\ SameActions(SelectSeq(again.value, IsApprove), SelectSeq(actions.value, IsApprove))

\* the entries of a delta set holding its most negative and its most
\* positive delta
Extremes(delta_set) ==
    [lowest |-> {p \in delta_set : p[2] < 0 /\ \A q \in delta_set : p[2] <= q[2]},
     highest |-> {p \in delta_set : p[2] > 0 /\ \A q \in delta_set : p[2] >= q[2]}]

(* C29, amended: permuting the receipt logs changes neither whether the    *)
(* call raises, nor the per-asset net deltas and the native delta, nor      *)
(* whether the fungible result is a swap, transfers or nothing, nor the     *)
(* amount reported for an asset: the transfers are the same actions, and a  *)
(* swap reports the same two amounts, each for an asset holding the extreme *)
(* delta. The nft_transfer and the approve actions are the same actions.    *)
(* The order of the logs decides the order of the transfers, which of       *)
(* several assets tied at the extreme a swap names, and the order of the    *)
(* nft_transfer and of the approve actions.                                 *)
C29_PermutedLogsSameDeltas ==
    Reclassified =>
        /\ again.raised = actions.raised
        /\ ~actions.raised /\ ~again.raised =>
              LET before == FungibleActions(actions.value)
                  after == FungibleActions(again.value)
                  delta_set == DeltaSet(raw_tx, "base")
                  extremes == Extremes(delta_set)
                  Leg(p) == ExternalAddress(p[1], NATIVE_KEY_EVM)
              IN /\ DeltaSet(Reordered(raw_tx, again.order), "base") = delta_set
                 /\ HasType(after, "swap") = HasType(before, "swap")
                 /\ SameActions(after, before) \/ HasType(before, "swap")
                 /\ HasType(before, "swap") =>
                        /\ Len(after) = 1 /\ Len(before) = 1
                        /\ after[1].token_in.amount = before[1].token_in.amount
                        /\ after[1].token_out.amount = before[1].token_out.amount
                        /\ after[1].protocol = before[1].protocol
                        /\ \E p \in extremes.lowest : after[1].token_in.address = Leg(p)
                        /\ \E p \in extremes.highest : after[1].token_out.address = Leg(p)
                 /\ SameActions(SelectSeq(again.value, IsNftTransfer),
                                SelectSeq(actions.value, IsNftTransfer))
                 /\ SameActions(SelectSeq(again.value, IsApprove),
                                SelectSeq(actions.value, IsApprove))
                 /\ Len(again.value) = Len(actions.value)

\* two tokens sent, the logs swapped: the same two transfers in the other
\* order
C29_Witness ==
    /\ Reclassified
    /\ ~actions.raised /\ ~again.raised
    /\ again.order = <<2, 1>>
    /\ raw_tx.receipt.logs = <<TransferLog(TOKEN_A, USER, OTHER_ADDRESS, "0x3"),
                               TransferLog(TOKEN_B, USER, OTHER_ADDRESS, "0x3")>>
    /\ Len(actions.value) = 2
    /\ again.value = <<actions.value[2], actions.value[1]>>
    /\ actions.value[1] # actions.value[2]

(***************************************************************************)
(* classify_evm_actions on calls that wrap, unwrap and send native value    *)
(***************************************************************************)
\* calls without logs: no value; value 2; value 2 with no recipient known
NativeBundles ==
    { EvmBundle(Transaction(USER_CHECKSUMMED, ROUTER, "0x0", "0x"), Receipt(USER, ROUTER, None)),
      EvmBundle(Transaction(USER, None, "0x2", "0x"), Receipt(USER, OTHER_ADDRESS, None)),
      EvmBundle(Transaction(USER, None, "0x2", Missing), Receipt(None, None, None)) }

NativeLogs ==
    { DepositLog,
      WithdrawalLog,
      TransferLog(WETH, OTHER_ADDRESS, USER, "0x1"),
      TransferLog(TOKEN_A, USER, OTHER_ADDRESS, "0x3"),
      TransferLog(TOKEN_B, OTHER_ADDRESS, USER, "0x2") }

InitNative ==
    /\ chain = "base"
    /\ raw_tx \in NativeBundles
    /\ InitCommon

AppendNativeLog ==
    /\ pc = "input"
    /\ Len(raw_tx.receipt.logs) < MaxLogs
    /\ \E log \in NativeLogs :
           raw_tx' = [raw_tx EXCEPT !.receipt.logs = Append(@, log)]
    /\ UNCHANGED <<chain, pc, actions, again, normalized>>
    /\ UNCHANGED serviceVars

NextNative == AppendNativeLog \/ CallClassifier

SpecNative == InitNative /\ [][NextNative]_vars

(***************************************************************************)
(* app/main.py with both caches: the pending path of POST /v1/receipt      *)
(***************************************************************************)
\* answer i records a pending transaction: the fetcher came back with a
\* pending transaction, tx_cache.set and set_negative("pending") ran, at
\* answers[i].at
RecordsPending(i) == answers[i].status_code = 202 /\ answers[i].fetched

\* the pending entries the memory cache holds for a chain and hash
PendingEntries(chain_tag, tx_hash) ==
    {tx_cache._store[i][2] : i \in {k \in 1..Len(tx_cache._store) :
        /\ tx_cache._store[k][1] = _key(chain_tag, tx_hash)
        /\ tx_cache._store[k][2].data # NoneObj
        /\ tx_cache._store[k][2].data.status = "pending"}}

\* the memory-cache entry of a pending transaction expires no later than the
\* negative file entry, which is in place as long as the memory entry lives
PendingEntryExpiresFirst ==
    \A p \in HttpPairs : \A entry \in PendingEntries(p[1], p[2]) :
        LET file == files[_negative_key(p[1], p[2])] IN
        /\ file.exists /\ file.content = "pending" =>
               entry.expires_at <= file.mtime + FileCache_PENDING_TTL
        /\ now <= entry.expires_at =>
               /\ file.exists /\ file.content = "pending"
               /\ ~_is_expired(file, FileCache_PENDING_TTL, now)

\* a 202 answer given without a call of the fetcher is given no more than
\* FileCache_PENDING_TTL seconds after a pending result was recorded
PendingServedWithinTtl ==
    \A j \in 1..Len(answers) :
        answers[j].status_code = 202 /\ ~answers[j].fetched =>
            \E i \in 1..(j - 1) :
                /\ LaterSame(i, j)
                /\ RecordsPending(i)
                /\ answers[j].began - answers[i].at <= FileCache_PENDING_TTL

\* up to the expiry of the record of answer i the next request is answered
\* 202 from the negative cache; the first request after it calls the fetcher
FirstRequestAfterExpiryFetches ==
    \A i \in 1..(Len(answers) - 1) :
        LaterSame(i, i + 1) /\ RecordsPending(i) =>
            IF answers[i + 1].began - answers[i].at <= FileCache_PENDING_TTL
            THEN answers[i + 1].status_code = 202 /\ ~answers[i + 1].fetched
            ELSE answers[i + 1].fetched

\* a fetch that comes back while the provider holds the transaction as
\* confirmed goes on to the renderer unless it timed out, the renderer's
\* return is answered 200, and a fetched request is answered 202 only while
\* the provider holds the transaction as pending
ConfirmedIsRendered ==
    /\ request.pc = "fetch" /\ request'.pc # "fetch" =>
           LET held == ledger[<<request.chain, request.tx_hash>>] IN
           IF request'.pc = "render"
           THEN held = "confirmed" /\ request'.tx_data.status = "confirmed"
           ELSE /\ Len(answers') = Len(answers) + 1
                /\ held = "confirmed" => answers'[Len(answers')].status_code = 504
                /\ answers'[Len(answers')].status_code = 202 => held = "pending"
    /\ request.pc = "render" /\ request'.pc # "render" =>
           /\ Len(answers') = Len(answers) + 1
           /\ answers'[Len(answers')].status_code = 200
           /\ answers'[Len(answers')].rendered
           /\ ~answers'[Len(answers')].cached

====
